---- MODULE Spec2Model ----
(***************************************************************************)
(* Verification model of biLangGen: the adaptive RateLimiter, the          *)
(* translation / TTS provider adapters built around it, and the streaming  *)
(* audio combiner with its timeline.                                       *)
(*                                                                         *)
(* Python floats are modelled as exact rationals <<n, d>> (d > 0, lowest   *)
(* terms); strings as sequences over a three-letter alphabet with one      *)
(* Latin letter, one Cyrillic letter and the space.                        *)
(***************************************************************************)
EXTENDS Integers, Sequences, FiniteSets, TLC

VARIABLES
    limiter,      \* RateLimiter fields (src/utils/rate_limiter.py)
    calls,        \* history of report_success ("S") / report_error ("E") calls
    th,           \* per worker thread: position inside wait / report_* and its locals
    now,          \* wall clock (time.time()), in seconds
    call,         \* one translate / synthesize call on a provider adapter
    trace,        \* what that call did to its limiter and provider, in order
    job,          \* one translate_batch call: batches, workers, results
    asm,          \* one combine_audio_streaming run and its timeline
    fn,           \* one call of a function of the text / language / video modules
    pipe          \* one run or resume of the pipeline: the stored step statuses

limVars == <<limiter, calls>>
thrVars == <<th, now>>
adVars == <<call, trace>>
auxVars == <<fn, pipe>>
vars == <<limiter, calls, th, now, call, trace, job, asm, fn, pipe>>

(***************************************************************************)
(* Bounds of the model.                                                    *)
(***************************************************************************)
MaxCalls == 4          \* report_* calls made on one limiter
NumWorkers == 2        \* worker threads sharing one limiter
MaxTime == 2           \* seconds the wall clock advances
Epoch == 40            \* time.time() when the workers start, beyond any delay
MaxStrLen == 2         \* characters in a text or in a provider's answer
MaxRetries == 2        \* the max_retries argument of GoogleFreeTranslator / GTTSProvider

(***************************************************************************)
(* Exact rational arithmetic standing in for Python floats.                *)
(***************************************************************************)
Abs(x) == IF x < 0 THEN -x ELSE x

RECURSIVE GCD(_, _)
GCD(a, b) == IF b = 0 THEN a ELSE GCD(b, a % b)

Rat(n, d) ==
    LET g == GCD(Abs(n), Abs(d))
        s == IF d < 0 THEN -1 ELSE 1
    IN  IF n = 0 THEN <<0, 1>> ELSE <<(s * n) \div g, (s * d) \div g>>

RInt(i) == <<i, 1>>

\* the operations divide out common factors before multiplying, to keep the
\* intermediate products small
RAdd(a, b) ==
    LET g == GCD(a[2], b[2])
    IN  Rat(a[1] * (b[2] \div g) + b[1] * (a[2] \div g), (a[2] \div g) * b[2])
RNeg(a) == <<-a[1], a[2]>>
RSub(a, b) == RAdd(a, RNeg(b))
RMul(a, b) ==
    LET g1 == GCD(Abs(a[1]), b[2])
        g2 == GCD(Abs(b[1]), a[2])
    IN  Rat((a[1] \div g1) * (b[1] \div g2), (a[2] \div g2) * (b[2] \div g1))
RDiv(a, b) == RMul(a, IF b[1] < 0 THEN <<-b[2], -b[1]>> ELSE <<b[2], b[1]>>)
RLt(a, b) ==
    LET g == GCD(a[2], b[2])
    IN  a[1] * (b[2] \div g) < b[1] * (a[2] \div g)
RLe(a, b) ==
    LET g == GCD(a[2], b[2])
    IN  a[1] * (b[2] \div g) <= b[1] * (a[2] \div g)
RMin(a, b) == IF RLe(a, b) THEN a ELSE b
RMax(a, b) == IF RLe(a, b) THEN b ELSE a
RAbs(a) == <<Abs(a[1]), a[2]>>

RECURSIVE RPow(_, _)
RPow(a, k) == IF k = 0 THEN RInt(1) ELSE RMul(a, RPow(a, k - 1))

(***************************************************************************)
(* RateLimiter (src/utils/rate_limiter.py).                                *)
(***************************************************************************)
\* Constructor arguments <<min_delay, max_delay, initial_delay,
\* backoff_factor, recovery_factor>> used in the repository: the class
\* defaults, GoogleFreeTranslator's limiter and GTTSProvider's limiter, plus
\* one with a low ceiling so that the max_delay clamp is reached quickly.
LimiterConfigs ==
    { [min_delay |-> Rat(1, 2),  max_delay |-> RInt(30), initial_delay |-> Rat(1, 2),
       backoff_factor |-> RInt(2), recovery_factor |-> Rat(9, 10)],
      [min_delay |-> Rat(3, 10), max_delay |-> RInt(30), initial_delay |-> Rat(1, 2),
       backoff_factor |-> RInt(2), recovery_factor |-> Rat(19, 20)],
      [min_delay |-> Rat(3, 10), max_delay |-> RInt(30), initial_delay |-> Rat(3, 10),
       backoff_factor |-> RInt(2), recovery_factor |-> Rat(19, 20)],
      [min_delay |-> Rat(1, 2),  max_delay |-> RInt(3),  initial_delay |-> RInt(1),
       backoff_factor |-> RInt(2), recovery_factor |-> Rat(1, 2)] }

\* RateLimiter.__init__
NewLimiter(cfg) ==
    [min_delay |-> cfg.min_delay,
     max_delay |-> cfg.max_delay,
     initial_delay |-> cfg.initial_delay,
     current_delay |-> cfg.initial_delay,
     backoff_factor |-> cfg.backoff_factor,
     recovery_factor |-> cfg.recovery_factor,
     jitter |-> Rat(1, 10),
     last_request_time |-> 0,
     consecutive_errors |-> 0]

\* RateLimiter._get_delay_with_jitter; u in {-1, 0, 1} picks the lower end,
\* the middle or the upper end of random.uniform(-jitter_range, jitter_range)
get_delay_with_jitter(l, u) ==
    LET jitter_range == RMul(l.current_delay, l.jitter)
    IN  RMax(l.min_delay, RAdd(l.current_delay, RMul(RInt(u), jitter_range)))

\* a report_error that forgets the max_delay ceiling
ErrorDelayUnclamped(l) == RMul(l.current_delay, l.backoff_factor)

\* the new current_delay of report_success
SuccessDelay(l) == RMax(l.min_delay, RMul(l.current_delay, l.recovery_factor))

\* the new current_delay of report_error
ErrorDelay(l) == RMin(l.max_delay, RMul(l.current_delay, l.backoff_factor))

\* RateLimiter.report_success
report_success(l) ==
    [l EXCEPT !.consecutive_errors = 0, !.current_delay = SuccessDelay(l)]

\* RateLimiter.report_error
report_error(l) ==
    [l EXCEPT !.consecutive_errors = l.consecutive_errors + 1,
              !.current_delay = ErrorDelay(l)]

\* defaults of the state a specification does not use
NewThread(pc) ==
    [pc |-> pc, elapsed |-> RInt(0), wake |-> RInt(0), n |-> 0,
     delay |-> RInt(0), op |-> "none", ret |-> -1]

IdleThreads == th = [w \in 1..NumWorkers |-> NewThread("idle")] /\ now = 0
IdleAdapter == call = [pc |-> "idle"] /\ trace = <<>>
IdleJob == job = [pc |-> "idle", batches |-> <<>>]
IdleAssembler == asm = [pc |-> "idle"]
IdleAux == fn = [pc |-> "idle"] /\ pipe = [pc |-> "idle"]

InitLimiter ==
    /\ \E cfg \in LimiterConfigs : limiter = NewLimiter(cfg)
    /\ calls = <<>>
    /\ IdleThreads /\ IdleAdapter /\ IdleJob /\ IdleAssembler /\ IdleAux

ReportSuccess ==
    /\ Len(calls) < MaxCalls
    /\ limiter' = report_success(limiter)
    /\ calls' = Append(calls, "S")
    /\ UNCHANGED <<thrVars, adVars, job, asm, auxVars>>

ReportError ==
    /\ Len(calls) < MaxCalls
    /\ limiter' = report_error(limiter)
    /\ calls' = Append(calls, "E")
    /\ UNCHANGED <<thrVars, adVars, job, asm, auxVars>>

NextLimiter == ReportSuccess \/ ReportError

SpecLimiter == InitLimiter /\ [][NextLimiter]_vars

OnlyCalls(tag) == \A i \in 1..Len(calls) : calls[i] = tag

Workers == 1..NumWorkers

InitThreads ==
    /\ \E cfg \in LimiterConfigs : limiter = NewLimiter(cfg)
    /\ calls = <<>>
    /\ th = [w \in Workers |-> NewThread("start")]
    /\ now = Epoch
    /\ IdleAdapter /\ IdleJob /\ IdleAssembler /\ IdleAux

\* wait(): elapsed = time.time() - self._last_request_time
WaitElapsed(w) ==
    /\ th[w].pc = "start"
    /\ th' = [th EXCEPT ![w].pc = "w_delay",
                        ![w].elapsed = RSub(RInt(now), RInt(limiter.last_request_time))]
    /\ UNCHANGED <<limiter, calls, now, adVars, job, asm, auxVars>>

\* wait(): delay = self._get_delay_with_jitter(); time.sleep(delay - elapsed)
WaitDelay(w) ==
    /\ th[w].pc = "w_delay"
    /\ \E u \in {-1, 0, 1} :
          LET delay == get_delay_with_jitter(limiter, u)
              wake == IF RLt(th[w].elapsed, delay)
                      THEN RAdd(RInt(now), RSub(delay, th[w].elapsed))
                      ELSE RInt(now)
          IN  th' = [th EXCEPT ![w].pc = "w_sleep", ![w].wake = wake,
                              ![w].elapsed = RInt(0)]
    /\ UNCHANGED <<limiter, calls, now, adVars, job, asm, auxVars>>

\* wait(): the sleep is over; self._last_request_time = time.time()
WaitReturn(w) ==
    /\ th[w].pc = "w_sleep"
    /\ RLe(th[w].wake, RInt(now))
    /\ limiter' = [limiter EXCEPT !.last_request_time = now]
    /\ th' = [th EXCEPT ![w].pc = "called", ![w].ret = now, ![w].wake = RInt(0)]
    /\ UNCHANGED <<calls, now, adVars, job, asm, auxVars>>

\* report_success(): self._consecutive_errors = 0
SuccessReset(w) ==
    /\ th[w].pc = "called"
    /\ limiter' = [limiter EXCEPT !.consecutive_errors = 0]
    /\ th' = [th EXCEPT ![w].pc = "s_read", ![w].op = "S"]
    /\ UNCHANGED <<calls, now, adVars, job, asm, auxVars>>

\* report_success(): evaluate max(min_delay, current_delay * recovery_factor)
SuccessRead(w) ==
    /\ th[w].pc = "s_read"
    /\ th' = [th EXCEPT ![w].pc = "s_write", ![w].delay = SuccessDelay(limiter)]
    /\ UNCHANGED <<limiter, calls, now, adVars, job, asm, auxVars>>

\* report_success(): store self.current_delay
SuccessWrite(w) ==
    /\ th[w].pc = "s_write"
    /\ limiter' = [limiter EXCEPT !.current_delay = th[w].delay]
    /\ th' = [th EXCEPT ![w].pc = "done", ![w].delay = RInt(0)]
    /\ UNCHANGED <<calls, now, adVars, job, asm, auxVars>>

\* report_error(): load self._consecutive_errors
ErrorReadCount(w) ==
    /\ th[w].pc = "called"
    /\ th' = [th EXCEPT ![w].pc = "e_write", ![w].op = "E",
                        ![w].n = limiter.consecutive_errors]
    /\ UNCHANGED <<limiter, calls, now, adVars, job, asm, auxVars>>

\* report_error(): store self._consecutive_errors (the loaded value + 1)
ErrorWriteCount(w) ==
    /\ th[w].pc = "e_write"
    /\ limiter' = [limiter EXCEPT !.consecutive_errors = th[w].n + 1]
    /\ th' = [th EXCEPT ![w].pc = "e_read", ![w].n = 0]
    /\ UNCHANGED <<calls, now, adVars, job, asm, auxVars>>

\* report_error(): evaluate min(max_delay, current_delay * backoff_factor)
ErrorReadDelay(w) ==
    /\ th[w].pc = "e_read"
    /\ th' = [th EXCEPT ![w].pc = "e_dwrite", ![w].delay = ErrorDelay(limiter)]
    /\ UNCHANGED <<limiter, calls, now, adVars, job, asm, auxVars>>

\* report_error(): store self.current_delay
ErrorWriteDelay(w) ==
    /\ th[w].pc = "e_dwrite"
    /\ limiter' = [limiter EXCEPT !.current_delay = th[w].delay]
    /\ th' = [th EXCEPT ![w].pc = "done", ![w].delay = RInt(0)]
    /\ UNCHANGED <<calls, now, adVars, job, asm, auxVars>>

\* the wall clock advances
Tick ==
    /\ now < Epoch + MaxTime
    /\ now' = now + 1
    /\ UNCHANGED <<limiter, calls, th, adVars, job, asm, auxVars>>

NextThreads ==
    \/ \E w \in Workers :
          \/ WaitElapsed(w) \/ WaitDelay(w) \/ WaitReturn(w)
          \/ SuccessReset(w) \/ SuccessRead(w) \/ SuccessWrite(w)
          \/ ErrorReadCount(w) \/ ErrorWriteCount(w)
          \/ ErrorReadDelay(w) \/ ErrorWriteDelay(w)
    \/ Tick

SpecThreads == InitThreads /\ [][NextThreads]_vars

\* the limiters that the workers' report_* calls produce when they run one
\* after the other, in every order
RECURSIVE SequentialOutcomes(_, _)
SequentialOutcomes(l, ws) ==
    IF ws = {} THEN {l}
    ELSE UNION { SequentialOutcomes(IF th[w].op = "S" THEN report_success(l)
                                                      ELSE report_error(l),
                                    ws \ {w}) : w \in ws }

FreshLimiter ==
    [limiter EXCEPT !.current_delay = limiter.initial_delay,
                    !.consecutive_errors = 0]

\* C7: RateLimiter is thread-safe: once the workers' concurrent calls are
\* over, current_delay and the consecutive-error count are those of some
\* sequential order of the calls, and no two wait() calls returned less
\* than min_delay apart.
RateLimiterThreadSafe ==
    /\ (\A w \in Workers : th[w].pc = "done") =>
          \E l \in SequentialOutcomes(FreshLimiter, Workers) :
              /\ l.current_delay = limiter.current_delay
              /\ l.consecutive_errors = limiter.consecutive_errors
    /\ \A v, w \in Workers :
          (v # w /\ th[v].ret >= 0 /\ th[w].ret >= 0) =>
              RLe(limiter.min_delay, RInt(Abs(th[v].ret - th[w].ret)))

(***************************************************************************)
(* Texts.  "L" is a Latin letter, "C" a Cyrillic letter, " " whitespace.   *)
(***************************************************************************)
Alphabet == {"L", "C", " "}
Strings == UNION { [1..n -> Alphabet] : n \in 0..MaxStrLen }

RECURSIVE LStrip(_)
LStrip(s) == IF s # <<>> /\ Head(s) = " " THEN LStrip(Tail(s)) ELSE s

RECURSIVE RStrip(_)
RStrip(s) ==
    IF s # <<>> /\ s[Len(s)] = " " THEN RStrip(SubSeq(s, 1, Len(s) - 1)) ELSE s

\* str.strip()
Strip(s) == RStrip(LStrip(s))

\* re.search('[а-яА-ЯёЁ]', text)
has_cyrillic(s) == \E i \in 1..Len(s) : s[i] = "C"

\* re.search('[a-zA-Z...]', text)
has_latin(s) == \E i \in 1..Len(s) : s[i] = "L"

\* what a provider can answer to a request for `text`: nothing, blanks,
\* Latin, Cyrillic or mixed text, or the text itself
Answers(text) == {<<>>, <<" ">>, <<"L">>, <<"C">>, <<"L", "C">>, text}

\* language codes: Russian, English, Ukrainian (a Cyrillic target of the
\* validators' lists) and German (in neither of their lists)
Langs == {"ru", "en", "uk", "de"}
CyrillicTargets == {"ru", "uk", "be", "bg", "sr", "mk"}
LatinTargets == {"es", "es-latam", "es-ar", "es-ES", "en", "en-US", "en-GB"}

\* OpenAIGPTTranslator._validate_translation
openai_validate_translation(original, translation, source_lang, target_lang) ==
    IF Strip(translation) = Strip(original) THEN FALSE
    ELSE IF /\ source_lang = "ru"
            /\ target_lang \notin CyrillicTargets
            /\ has_cyrillic(translation) THEN FALSE
    ELSE TRUE

\* GeminiTranslator._validate_translation; TRUE stands for the empty error
\* message
gemini_validate_translation(original, translation, source_lang, target_lang) ==
    IF translation = <<>> \/ Strip(translation) = <<>> THEN FALSE
    ELSE IF Strip(translation) = Strip(original) THEN FALSE
    ELSE IF target_lang \in LatinTargets /\ ~has_latin(translation) THEN FALSE
    ELSE IF target_lang \in LatinTargets /\ has_cyrillic(translation) THEN FALSE
    ELSE IF /\ source_lang = "ru"
            /\ target_lang \notin CyrillicTargets
            /\ has_cyrillic(translation) THEN FALSE
    ELSE TRUE

\* MAX_RETRIES of openai_gpt.py and of gemini_gpt.py
MAX_RETRIES == 5

\* RateLimiter.get_retry_delay; u in {0, 1} picks the lower or the upper end
\* of random.uniform(0, base_delay * jitter)
get_retry_delay(l, attempt, u) ==
    LET base_delay == RMul(l.current_delay, RPow(l.backoff_factor, attempt))
        jitter == RMul(RInt(u), RMul(base_delay, l.jitter))
    IN  RMin(l.max_delay, RAdd(base_delay, jitter))

(***************************************************************************)
(* Provider adapters: one translate() / synthesize() call.                 *)
(***************************************************************************)
Adapters == {"google", "deepl", "openai", "gemini", "gtts"}
Translators == Adapters \ {"gtts"}

\* the limiter each adapter constructs
AdapterLimiter(adapter) ==
    NewLimiter([min_delay |-> Rat(3, 10), max_delay |-> RInt(30),
                initial_delay |-> IF adapter = "gtts" THEN Rat(3, 10) ELSE Rat(1, 2),
                backoff_factor |-> RInt(2), recovery_factor |-> Rat(19, 20)])

InitAdapter ==
    /\ \E adapter \in Adapters, text \in Strings, source_lang, target_lang \in Langs :
          /\ adapter = "gtts" => target_lang = source_lang
          /\ limiter = AdapterLimiter(adapter)
          /\ call = [adapter |-> adapter, text |-> text,
                     source_lang |-> source_lang, target_lang |-> target_lang,
                     pc |-> "called", attempt |-> 0, outcome |-> "none",
                     value |-> <<>>, ended_by |-> "none", error_count |-> 0]
    /\ trace = <<>>
    /\ calls = <<>>
    /\ IdleThreads /\ IdleJob /\ IdleAssembler /\ IdleAux

\* the call is over: it returned value, returned False ("failed", gTTS) or
\* raised; ended_by records why
Finish(outcome, value, ended_by) ==
    [call EXCEPT !.pc = "done", !.outcome = outcome, !.value = value,
                 !.ended_by = ended_by]

Ev(ev, res, attempt) ==
    [ev |-> ev, res |-> res, attempt |-> attempt, delay |-> RInt(0), allowed |-> {}]

\* time.sleep(delay) before the next attempt; allowed are the values
\* get_retry_delay(attempt) can return at that moment
EvSleep(l, attempt, delay) ==
    [ev |-> "sleep", res |-> "", attempt |-> attempt, delay |-> delay,
     allowed |-> { get_retry_delay(l, attempt, u) : u \in {0, 1} }]

\* GoogleFreeTranslator.translate
GoogleTranslate ==
    /\ call.adapter = "google" /\ call.pc = "called"
    /\ call' = IF Strip(call.text) = <<>> \/ call.source_lang = call.target_lang
               THEN Finish("returned", call.text, "shortcut")
               ELSE [call EXCEPT !.pc = "retry"]
    /\ UNCHANGED <<limVars, thrVars, trace, job, asm, auxVars>>

GoogleResponses ==
    { [kind |-> "ok", text |-> t] : t \in Answers(call.text) } \cup
    { [kind |-> k, text |-> <<>>] : k \in {"none", "too_many", "retryable", "other"} }

\* GoogleFreeTranslator._translate_with_retry: one pass of the loop, and the
\* fallback after the loop when it was the last pass
GoogleAttempt ==
    /\ call.adapter = "google" /\ call.pc = "retry"
    /\ \E r \in GoogleResponses, u \in {0, 1} :
          LET a == call.attempt
              head == <<Ev("wait", "", a), Ev("request", r.kind, a)>>
              n == IF r.kind = "too_many" THEN 2 ELSE 1
              l1 == report_error(limiter)
              l2 == IF n = 2 THEN report_error(l1) ELSE l1
              delay == RMul(RInt(n), get_retry_delay(l2, a, u))
              errs == [k \in 1..n |-> Ev("report_error", "", a)]
          IN  CASE r.kind \in {"ok", "none"} ->
                     /\ limiter' = report_success(limiter)
                     /\ trace' = trace \o head \o <<Ev("report_success", "", a)>>
                     /\ call' = Finish("returned",
                                       IF r.kind = "none" \/ r.text = <<>>
                                       THEN call.text ELSE r.text,
                                       "success")
                [] r.kind \in {"too_many", "retryable"} ->
                     /\ limiter' = l2
                     /\ IF a < MaxRetries
                        THEN /\ trace' = trace \o head \o errs \o <<EvSleep(l2, a, delay)>>
                             /\ call' = [call EXCEPT !.attempt = a + 1,
                                                     !.error_count = @ + 1]
                        ELSE /\ u = 0
                             /\ trace' = trace \o head \o errs
                             /\ call' = [Finish("returned", call.text, "exhausted")
                                           EXCEPT !.error_count = @ + 1]
                [] r.kind = "other" ->
                     /\ u = 0
                     /\ limiter' = limiter
                     /\ trace' = trace \o head
                     /\ call' = Finish("returned", call.text, "nonretryable")
    /\ UNCHANGED <<calls, thrVars, job, asm, auxVars>>

\* DeepLFreeTranslator.translate
DeepLTranslate ==
    /\ call.adapter = "deepl" /\ call.pc = "called"
    /\ IF Strip(call.text) = <<>> \/ call.source_lang = call.target_lang
       THEN call' = Finish("returned", call.text, "shortcut")
       ELSE \E r \in { [kind |-> "ok", text |-> t] : t \in Answers(call.text) } \cup
                      { [kind |-> k, text |-> <<>>] : k \in {"none", "error"} } :
              call' = CASE r.kind = "ok" /\ r.text # <<>> ->
                               Finish("returned", r.text, "success")
                        [] r.kind = "error" ->
                               Finish("returned", call.text, "nonretryable")
                        [] OTHER -> Finish("returned", call.text, "success")
    /\ UNCHANGED <<limVars, thrVars, trace, job, asm, auxVars>>

\* what one provider request of OpenAIGPTTranslator._translate_single can
\* lead to.  A JSON answer without the "text" key counts as the answer text
\* itself (result.get("text", text)).
OpenAIRequest(text, source_lang, target_lang) ==
    { [kind |-> "answer", text |-> t,
       valid |-> openai_validate_translation(text, t, source_lang, target_lang)]
        : t \in Answers(text) } \cup
    { [kind |-> k, text |-> <<>>, valid |-> FALSE]
        : k \in {"rate_limit", "api_rate_limit", "api_error", "exception"} }

\* the result of a request that ended the pass of the loop, or "retry"
\* (a valid answer is returned; a rate limit continues the loop; any other
\* APIError or exception returns the source text)
OpenAIHandled(r, text) ==
    CASE r.kind = "answer" /\ r.valid ->
             [next |-> "return", value |-> r.text, ended_by |-> "success"]
      [] r.kind \in {"api_error", "exception"} ->
             [next |-> "return", value |-> text, ended_by |-> "nonretryable"]
      [] OTHER -> [next |-> "continue", value |-> <<>>, ended_by |-> "none"]

\* OpenAIGPTTranslator._translate_single: one pass of the loop.  After an
\* invalid answer, if passes remain, the request is repeated once at a
\* higher temperature inside the same pass.
OpenAIAttemptResults(text, source_lang, target_lang, attempt) ==
    LET requests == OpenAIRequest(text, source_lang, target_lang)
        invalid == \E r \in requests : r.kind = "answer" /\ ~r.valid
    IN  { OpenAIHandled(r, text) : r \in requests } \cup
        IF invalid /\ attempt < MAX_RETRIES - 1
        THEN { OpenAIHandled(r, text) : r \in requests }
        ELSE {}

\* GeminiTranslator._translate_single: one pass of the loop.  A JSON answer
\* without the "text" key counts as the empty answer; every exception
\* continues the loop.
GeminiAttemptResults(text, source_lang, target_lang, attempt) ==
    { IF gemini_validate_translation(text, t, source_lang, target_lang)
      THEN [next |-> "return", value |-> t, ended_by |-> "success"]
      ELSE [next |-> "continue", value |-> <<>>, ended_by |-> "none"]
        : t \in Answers(text) } \cup
    { [next |-> "continue", value |-> <<>>, ended_by |-> "none"] }

AttemptResults(adapter, text, source_lang, target_lang, attempt) ==
    IF adapter = "openai"
    THEN OpenAIAttemptResults(text, source_lang, target_lang, attempt)
    ELSE GeminiAttemptResults(text, source_lang, target_lang, attempt)

\* OpenAIGPTTranslator.translate / GeminiTranslator.translate, and the blank
\* text shortcut that opens _translate_single
GptTranslate ==
    /\ call.adapter \in {"openai", "gemini"} /\ call.pc = "called"
    /\ call' = IF call.source_lang = call.target_lang \/ Strip(call.text) = <<>>
               THEN Finish("returned", call.text, "shortcut")
               ELSE [call EXCEPT !.pc = "retry"]
    /\ UNCHANGED <<limVars, thrVars, trace, job, asm, auxVars>>

\* _translate_single of both GPT adapters: one pass of the loop, and the
\* RuntimeError after the loop when it was the last pass
GptAttempt ==
    /\ call.adapter \in {"openai", "gemini"} /\ call.pc = "retry"
    /\ \E res \in AttemptResults(call.adapter, call.text, call.source_lang,
                                  call.target_lang, call.attempt) :
          call' = IF res.next = "return"
                  THEN Finish("returned", res.value, res.ended_by)
                  ELSE IF call.attempt + 1 = MAX_RETRIES
                  THEN [Finish("raised", <<>>, "exhausted")
                          EXCEPT !.attempt = call.attempt + 1]
                  ELSE [call EXCEPT !.attempt = call.attempt + 1]
    /\ UNCHANGED <<limVars, thrVars, trace, job, asm, auxVars>>

\* GTTSProvider.synthesize
GTTSSynthesize ==
    /\ call.adapter = "gtts" /\ call.pc = "called"
    /\ call' = IF Strip(call.text) = <<>>
               THEN Finish("failed", <<>>, "shortcut")
               ELSE [call EXCEPT !.pc = "retry"]
    /\ UNCHANGED <<limVars, thrVars, trace, job, asm, auxVars>>

\* GTTSProvider._synthesize_with_retry: one pass of the loop
GTTSAttempt ==
    /\ call.adapter = "gtts" /\ call.pc = "retry"
    /\ \E kind \in {"ok", "gtts_429", "gtts_error", "connection", "other"},
          u \in {0, 1} :
          LET a == call.attempt
              head == <<Ev("wait", "", a), Ev("request", kind, a)>>
              n == IF kind = "gtts_429" THEN 2 ELSE 1
              l1 == report_error(limiter)
              l2 == IF n = 2 THEN report_error(l1) ELSE l1
              delay == RMul(RInt(n), get_retry_delay(l2, a, u))
              errs == [k \in 1..n |-> Ev("report_error", "", a)]
          IN  CASE kind = "ok" ->
                     /\ u = 0
                     /\ limiter' = report_success(limiter)
                     /\ trace' = trace \o head \o <<Ev("report_success", "", a)>>
                     /\ call' = Finish("returned", <<>>, "success")
                [] kind \in {"gtts_429", "gtts_error", "connection"} ->
                     /\ limiter' = l2
                     /\ IF a < MaxRetries
                        THEN /\ trace' = trace \o head \o errs \o <<EvSleep(l2, a, delay)>>
                             /\ call' = [call EXCEPT !.attempt = a + 1,
                                                     !.error_count = @ + 1]
                        ELSE /\ u = 0
                             /\ trace' = trace \o head \o errs
                             /\ call' = [Finish("failed", <<>>, "exhausted")
                                           EXCEPT !.error_count = @ + 1]
                [] kind = "other" ->
                     /\ u = 0
                     /\ limiter' = limiter
                     /\ trace' = trace \o head
                     /\ call' = Finish("failed", <<>>, "nonretryable")
    /\ UNCHANGED <<calls, thrVars, job, asm, auxVars>>

NextAdapter ==
    \/ GoogleTranslate \/ GoogleAttempt
    \/ DeepLTranslate
    \/ GptTranslate \/ GptAttempt
    \/ GTTSSynthesize \/ GTTSAttempt

SpecAdapter == InitAdapter /\ [][NextAdapter]_vars

NonBlankTranslation ==
    /\ call.pc = "done"
    /\ call.adapter \in Translators
    /\ Strip(call.text) # <<>>
    /\ call.source_lang # call.target_lang

\* C1: for a non-blank text with source_lang # target_lang, when all the
\* attempts of GoogleFreeTranslator, DeepLFreeTranslator or
\* OpenAIGPTTranslator._translate_single fail (retries exhausted, or a
\* non-retryable provider error), translate raises; it never returns the
\* untranslated source text as the translation.
TranslateRaisesOnFailure ==
    ( /\ NonBlankTranslation
      /\ call.adapter \in {"google", "deepl", "openai"}
      /\ call.ended_by \in {"exhausted", "nonretryable"} )
    => call.outcome = "raised"

\* C10: every translation an adapter returns for a non-blank input with
\* source_lang # target_lang is non-empty, differs from the input, and has
\* no Cyrillic character when the source is ru and the target is not a
\* Cyrillic language.
ReturnedTranslationValidated ==
    (NonBlankTranslation /\ call.outcome = "returned") =>
        /\ call.value # <<>>
        /\ call.value # call.text
        /\ (call.source_lang = "ru" /\ call.target_lang \notin CyrillicTargets)
              => ~has_cyrillic(call.value)

RetryableKinds == {"too_many", "retryable", "gtts_429", "gtts_error", "connection"}

\* C9: in GoogleFreeTranslator and GTTSProvider every provider request is
\* preceded by exactly one wait(); a successful request is followed by
\* exactly one report_success(); a retryable failure by exactly one
\* report_error() and then, if attempts remain, by a sleep of
\* get_retry_delay(attempt), which is at most max_delay; a non-retryable
\* failure ends the call with an error.
RateLimitedCallDiscipline ==
    \A i \in 1..Len(trace) :
        trace[i].ev = "request" =>
            LET n == Len(trace)
                res == trace[i].res
                IsEv(j, ev) == j >= 1 /\ j <= n /\ trace[j].ev = ev
            IN  /\ IsEv(i - 1, "wait") /\ ~IsEv(i - 2, "wait")
                /\ res \in {"ok", "none"} =>
                      IsEv(i + 1, "report_success") /\ ~IsEv(i + 2, "report_success")
                /\ res \in RetryableKinds =>
                      /\ IsEv(i + 1, "report_error") /\ ~IsEv(i + 2, "report_error")
                      /\ trace[i].attempt < MaxRetries =>
                            /\ IsEv(i + 2, "sleep")
                            /\ trace[i + 2].delay \in trace[i + 2].allowed
                            /\ RLe(trace[i + 2].delay, limiter.max_delay)
                /\ res = "other" =>
                      call.pc = "done" /\ call.outcome \in {"raised", "failed"}

(***************************************************************************)
(* translate_batch of OpenAIGPTTranslator and GeminiTranslator.            *)
(***************************************************************************)
\* every result a whole _translate_single call can have, from pass `attempt`
\* of its loop on
RECURSIVE translate_single(_, _, _, _, _)
translate_single(adapter, text, source_lang, target_lang, attempt) ==
    IF Strip(text) = <<>> THEN {[outcome |-> "returned", value |-> text]}
    ELSE IF attempt = MAX_RETRIES THEN {[outcome |-> "raised", value |-> <<>>]}
    ELSE UNION { IF res.next = "return"
                 THEN {[outcome |-> "returned", value |-> res.value]}
                 ELSE translate_single(adapter, text, source_lang, target_lang,
                                       attempt + 1)
                   : res \in AttemptResults(adapter, text, source_lang,
                                            target_lang, attempt) }

validate_translation(adapter, original, translation, source_lang, target_lang) ==
    IF adapter = "openai"
    THEN openai_validate_translation(original, translation, source_lang, target_lang)
    ELSE gemini_validate_translation(original, translation, source_lang, target_lang)

\* the lists of at most n answers a request for the batch `texts` can carry
AnswerLists(texts, n) ==
    UNION { [1..k -> UNION { Answers(texts[j]) : j \in 1..Len(texts) }] : k \in 0..n }

\* all sequences whose i-th element is drawn from choices[i]
RECURSIVE Product(_)
Product(choices) ==
    IF choices = <<>> THEN {<<>>}
    ELSE { <<x>> \o rest : x \in Head(choices), rest \in Product(Tail(choices)) }

\* _translate_batch_internal after a parsed answer `translations`: the
\* per-item validation, the individual re-translation of the invalid items
\* and the results the pass can end with.  singles[i] are the results that
\* _translate_single has for texts[i].  The RuntimeError that a failed
\* individual re-translation raises is raised inside the pass's own try
\* block, whose `except Exception` turns it into `return texts`.
BatchAnswerResults(adapter, texts, source_lang, target_lang, translations, singles) ==
    LET n == Len(texts)
        \* position of texts[i] among the non-blank texts
        idx == [i \in 1..n |-> Cardinality({ j \in 1..i : Strip(texts[j]) # <<>> })]
        answered == [i \in 1..n |->
                       Strip(texts[i]) # <<>> /\ idx[i] <= Len(translations)]
        valid == [i \in 1..n |->
                    answered[i] /\
                    validate_translation(adapter, texts[i], translations[idx[i]],
                                         source_lang, target_lang)]
        choices == [i \in 1..n |->
                      IF valid[i] THEN {translations[idx[i]]}
                      ELSE IF answered[i]
                      THEN { o.value : o \in { x \in singles[i] : x.outcome = "returned" } }
                      ELSE {texts[i]}]
        may_raise == \E i \in 1..n :
                        /\ answered[i] /\ ~valid[i]
                        /\ \E o \in singles[i] : o.outcome = "raised"
    IN  { [next |-> "return", output |-> out] : out \in Product(choices) } \cup
        IF may_raise THEN {[next |-> "return", output |-> texts]} ELSE {}

\* _translate_batch_internal: one pass of the loop over a batch with at
\* least one non-blank text.  A rate limit (and, in Gemini, an unparsable
\* answer) continues the loop; any other exception returns the batch's
\* source texts.
BatchAttemptResults(adapter, texts, source_lang, target_lang) ==
    LET non_empty == Cardinality({ j \in 1..Len(texts) : Strip(texts[j]) # <<>> })
        singles == [i \in 1..Len(texts) |->
                      translate_single(adapter, texts[i], source_lang, target_lang, 0)]
    IN  UNION { BatchAnswerResults(adapter, texts, source_lang, target_lang, tr, singles)
                  : tr \in AnswerLists(texts, non_empty) } \cup
        { [next |-> "continue", output |-> <<>>],
          [next |-> "return", output |-> texts] }

None == <<"None">>

\* the texts handed to translate_batch
BatchInputs ==
    { <<>>,
      <<<<"C">>>>,
      <<<<"C">>, <<"C", "C">>>>,
      <<<<" ">>, <<"C">>>>,
      <<<<"L">>, <<>>, <<"C">>>>,
      <<<<"C">>, <<"C", " ">>, <<"L", "C">>>> }

InitBatch ==
    /\ \E adapter \in {"openai", "gemini"}, texts \in BatchInputs,
          langs \in {<<"ru", "en">>, <<"en", "ru">>, <<"ru", "ru">>},
          batch_size \in {1, 2} :
          /\ Len(texts) <= 2 * batch_size
          /\ job = [pc |-> "called", adapter |-> adapter, texts |-> texts,
                 source_lang |-> langs[1], target_lang |-> langs[2],
                 batch_size |-> batch_size, results |-> <<>>, batches |-> <<>>,
                 outcome |-> "none", value |-> <<>>]
    /\ limiter = AdapterLimiter("gemini")
    /\ calls = <<>>
    /\ IdleThreads /\ IdleAdapter /\ IdleAssembler /\ IdleAux

\* translate_batch up to the submission of the batches to the thread pool
TranslateBatch ==
    /\ job.pc = "called"
    /\ LET n == Len(job.texts)
           size == job.batch_size
           count == (n + size - 1) \div size
           batch(b) == LET start == (b - 1) * size
                       IN  [start |-> start,
                            texts |-> SubSeq(job.texts, start + 1,
                                             IF start + size < n THEN start + size ELSE n),
                            pc |-> "submitted", attempt |-> 0,
                            outcome |-> "none", output |-> <<>>]
       IN  job' = IF job.source_lang = job.target_lang
                  THEN [job EXCEPT !.pc = "done", !.outcome = "returned",
                                   !.value = job.texts]
                  ELSE IF n = 0
                  THEN [job EXCEPT !.pc = "done", !.outcome = "returned",
                                   !.value = <<>>]
                  ELSE [job EXCEPT !.pc = "running",
                                   !.results = [k \in 1..n |-> None],
                                   !.batches = [b \in 1..count |-> batch(b)]]
    /\ UNCHANGED <<limVars, thrVars, adVars, asm, auxVars>>

\* a pool worker runs _translate_batch_internal on batch b: the shortcut
\* for a batch of blank texts, or one pass of the loop and the RuntimeError
\* after the loop when it was the last pass
BatchAttempt(b) ==
    /\ job.pc = "running"
    /\ job.batches[b].pc = "submitted"
    /\ LET bt == job.batches[b]
           finished(outcome, output) ==
               [job EXCEPT !.batches[b].pc = "finished",
                           !.batches[b].outcome = outcome,
                           !.batches[b].output = output]
       IN  IF \A j \in 1..Len(bt.texts) : Strip(bt.texts[j]) = <<>>
           THEN job' = finished("returned", bt.texts)
           ELSE \E res \in BatchAttemptResults(job.adapter, bt.texts,
                                                job.source_lang, job.target_lang) :
                  job' = IF res.next = "return"
                         THEN finished("returned", res.output)
                         ELSE IF bt.attempt + 1 = MAX_RETRIES
                         THEN finished("raised", <<>>)
                         ELSE [job EXCEPT !.batches[b].attempt = bt.attempt + 1]
    /\ UNCHANGED <<limVars, thrVars, adVars, asm, auxVars>>

\* the as_completed loop writing a batch's results from the start of the
\* list, not at the batch's offset
CollectBatchWithoutOffset(b) ==
    /\ job.pc = "running"
    /\ job.batches[b].pc = "finished"
    /\ LET bt == job.batches[b]
           n == Len(job.texts)
           results == [k \in 1..n |->
                         IF bt.outcome = "returned"
                         THEN IF k <= Len(bt.output)
                              THEN bt.output[k] ELSE job.results[k]
                         ELSE IF k <= Len(bt.texts) /\ job.results[k] = None
                              THEN job.texts[k] ELSE job.results[k]]
       IN  job' = [job EXCEPT !.results = results, !.batches[b].pc = "collected"]
    /\ UNCHANGED <<limVars, thrVars, adVars, asm, auxVars>>

\* translate_batch, the as_completed loop: the future of batch b is done;
\* copy its results, or keep the source texts when it raised
CollectBatch(b) ==
    /\ job.pc = "running"
    /\ job.batches[b].pc = "finished"
    /\ LET bt == job.batches[b]
           n == Len(job.texts)
           size == IF job.batch_size < n - bt.start THEN job.batch_size
                                                   ELSE n - bt.start
           results == [k \in 1..n |->
                         LET j == k - bt.start     \* 1-based position in the batch
                         IN  IF bt.outcome = "returned"
                             THEN IF j >= 1 /\ j <= Len(bt.output)
                                  THEN bt.output[j] ELSE job.results[k]
                             ELSE IF j >= 1 /\ j <= size /\ job.results[k] = None
                                  THEN job.texts[k] ELSE job.results[k]]
       IN  job' = [job EXCEPT !.results = results, !.batches[b].pc = "collected"]
    /\ UNCHANGED <<limVars, thrVars, adVars, asm, auxVars>>

\* translate_batch, the return statement: None entries become source texts
ReturnBatch ==
    /\ job.pc = "running"
    /\ \A b \in 1..Len(job.batches) : job.batches[b].pc = "collected"
    /\ job' = [job EXCEPT !.pc = "done", !.outcome = "returned",
                          !.value = [k \in 1..Len(job.texts) |->
                                       IF job.results[k] # None THEN job.results[k]
                                       ELSE job.texts[k]]]
    /\ UNCHANGED <<limVars, thrVars, adVars, asm, auxVars>>

NextBatch ==
    \/ TranslateBatch
    \/ \E b \in 1..Len(job.batches) : BatchAttempt(b) \/ CollectBatch(b)
    \/ ReturnBatch

SpecBatch == InitBatch /\ [][NextBatch]_vars

\* C2: translate_batch (source_lang # target_lang) validates every
\* non-blank item, re-translates an invalid or missing item individually
\* and raises if that fails too: when it returns, no non-blank item holds
\* its untranslated source text.
BatchNeverReturnsSource ==
    ( /\ job.pc = "done"
      /\ job.source_lang # job.target_lang
      /\ job.outcome = "returned" )
    => \A k \in 1..Len(job.texts) :
           Strip(job.texts[k]) # <<>> => job.value[k] # job.texts[k]

\* ------------------------------------------------------------------
\* combine_audio_streaming and verify_and_correct_timeline
\* (src/audio/combiner.py).  Durations are integers of milliseconds, as
\* ffprobe reports them; the timeline holds seconds as exact rationals.
\* ------------------------------------------------------------------

\* an audio file on disk: whether it exists, what ffprobe reports for it
\* (0 when the probe fails), and whether the atempo pass of
\* _process_audio_with_speed succeeds on it
MissingFile == [exists |-> FALSE, duration_ms |-> 0, tempo_ok |-> FALSE]
AudioFile(d, ok) == [exists |-> TRUE, duration_ms |-> d, tempo_ok |-> ok]
NoFile == [exists |-> FALSE, duration_ms |-> -1, tempo_ok |-> FALSE]

SourceDurations == {2000, 3000}
TargetDurations == {2000, 2500}

\* the files a caller can pass for one sentence; the outcome of the tempo
\* pass only matters when the speed is not 1.0
FilesFor(durations, speed) ==
    IF speed = 1
    THEN {MissingFile} \cup {AudioFile(d, TRUE) : d \in durations}
    ELSE {MissingFile, AudioFile(2000, TRUE), AudioFile(2000, FALSE)}

\* wordcard_files[i]: a list of (first_file, second_file) pairs
WordcardOptions ==
    { <<>>,
      << <<AudioFile(1500, TRUE), NoFile>> >>,
      << <<MissingFile, NoFile>> >>,
      << <<AudioFile(1000, TRUE), AudioFile(1000, TRUE)>>,
         <<MissingFile, AudioFile(1000, TRUE)>> >> }

\* the keyword arguments of one run: the defaults, and a run without
\* pauses that plays the target at double speed
AssemblerConfigs ==
    { [pause_between_langs_ms |-> 500, pause_between_sentences_ms |-> 800,
       pause_before_wordcard_ms |-> 300, pause_between_words_ms |-> 200,
       speed_source |-> 1, speed_target |-> 1],
      [pause_between_langs_ms |-> 0, pause_between_sentences_ms |-> 0,
       pause_before_wordcard_ms |-> 300, pause_between_words_ms |-> 200,
       speed_source |-> 1, speed_target |-> 2] }

Seconds(ms) == Rat(ms, 1000)

\* the source or target audio of sentence i: the concat entry and the
\* probed duration.  With a speed other than 1.0 the processed path is used
\* whether or not ffmpeg produced it.
process_audio(f, speed, name, i) ==
    IF ~f.exists THEN [entries |-> <<>>, duration_ms |-> 0]
    ELSE IF speed # 1
         THEN [entries |-> << [file |-> <<name, i, "processed">>,
                               produced |-> f.tempo_ok] >>,
               duration_ms |-> IF f.tempo_ok THEN f.duration_ms \div speed ELSE 0]
         ELSE [entries |-> << [file |-> <<name, i, "original">>,
                               produced |-> TRUE] >>,
               duration_ms |-> f.duration_ms]

Silence(name) == [file |-> <<name>>, produced |-> TRUE]

\* the loop over sentence_wordcards from pair k on: what it adds to
\* current_time_ms, to wordcard_duration_ms and to concat_entries
RECURSIVE wordcard_audio(_, _, _)
wordcard_audio(cards, k, pause_between_words_ms) ==
    IF k > Len(cards)
    THEN [advance_ms |-> 0, duration_ms |-> 0, entries |-> <<>>]
    ELSE LET first == cards[k][1]
             second == cards[k][2]
             word(f, name) ==
                 IF f.exists
                 THEN [ms |-> f.duration_ms,
                       entries |-> << [file |-> <<name, k>>, produced |-> TRUE] >>]
                 ELSE [ms |-> 0, entries |-> <<>>]
             between == IF k < Len(cards) THEN pause_between_words_ms ELSE 0
             this ==
                 IF second = NoFile
                 THEN LET c == word(first, "combined")
                      IN [ms |-> c.ms, entries |-> c.entries]
                 ELSE LET a == word(first, "tgt_word")
                          b == word(second, "src_word")
                      IN [ms |-> a.ms + pause_between_words_ms + b.ms + between,
                          entries |-> a.entries \o <<Silence("silence_wordpause")>>
                                        \o b.entries
                                        \o (IF k < Len(cards)
                                            THEN <<Silence("silence_wordpause")>>
                                            ELSE <<>>)]
             rest == wordcard_audio(cards, k + 1, pause_between_words_ms)
         IN [advance_ms |-> this.ms + rest.advance_ms,
             duration_ms |-> this.ms + rest.duration_ms,
             entries |-> this.entries \o rest.entries]

\* the timeline entry of one sentence, a variant that records the pause
\* between sentences as pause_between
timeline_entry_sentence_pause(cfg, t) ==
    LET entry == [start |-> Seconds(t.sentence_start_ms),
                  source_duration |-> Seconds(t.src_duration_ms),
                  pause_between |-> Seconds(cfg.pause_between_sentences_ms),
                  target_duration |-> Seconds(t.tgt_duration_ms),
                  end |-> Seconds(t.sentence_end_ms)]
    IN IF t.wordcard_duration_ms > 0
       THEN [f \in DOMAIN entry \cup {"wordcard_start", "wordcard_duration"} |->
               IF f = "wordcard_start" THEN Seconds(t.wordcard_start_ms)
               ELSE IF f = "wordcard_duration" THEN Seconds(t.wordcard_duration_ms)
               ELSE entry[f]]
       ELSE entry

\* the timeline entry of one sentence from the loop's *_ms locals t (times
\* in seconds); the word-card fields are present only when
\* wordcard_duration_ms > 0
timeline_entry(cfg, t) ==
    LET entry == [start |-> Seconds(t.sentence_start_ms),
                  source_duration |-> Seconds(t.src_duration_ms),
                  pause_between |-> Seconds(cfg.pause_between_langs_ms),
                  target_duration |-> Seconds(t.tgt_duration_ms),
                  end |-> Seconds(t.sentence_end_ms)]
    IN IF t.wordcard_duration_ms > 0
       THEN [f \in DOMAIN entry \cup {"wordcard_start", "wordcard_duration"} |->
               IF f = "wordcard_start" THEN Seconds(t.wordcard_start_ms)
               ELSE IF f = "wordcard_duration" THEN Seconds(t.wordcard_duration_ms)
               ELSE entry[f]]
       ELSE entry

\* current_time_ms after sentence i, a variant without the pause between
\* sentences
after_sentence_no_pause(cfg, i, total, sentence_end_ms) ==
    sentence_end_ms

\* current_time_ms after sentence i (0-based): the pause between sentences
\* follows every sentence but the last
after_sentence(cfg, i, total, sentence_end_ms) ==
    IF i < total - 1
    THEN sentence_end_ms + cfg.pause_between_sentences_ms
    ELSE sentence_end_ms

\* one pass of the loop body for sentence a.i with the files src, tgt and
\* the word cards chosen by the caller
process_sentence(a, src, tgt, cards) ==
    LET cfg == a.cfg
        s == process_audio(src, cfg.speed_source, "src", a.i)
        t == process_audio(tgt, cfg.speed_target, "tgt", a.i)
        after_target_ms == a.current_time_ms + s.duration_ms
                             + cfg.pause_between_langs_ms + t.duration_ms
        wc == wordcard_audio(cards, 1, cfg.pause_between_words_ms)
        wordcard_start_ms ==
            IF cards # <<>> THEN after_target_ms + cfg.pause_before_wordcard_ms
            ELSE 0
        sentence_end_ms ==
            IF cards # <<>> THEN wordcard_start_ms + wc.advance_ms
            ELSE after_target_ms
        locals == [sentence_start_ms |-> a.current_time_ms,
                   src_duration_ms |-> s.duration_ms,
                   tgt_duration_ms |-> t.duration_ms,
                   wordcard_start_ms |-> wordcard_start_ms,
                   wordcard_duration_ms |-> IF cards # <<>> THEN wc.duration_ms ELSE 0,
                   sentence_end_ms |-> sentence_end_ms]
        entries == s.entries \o <<Silence("silence_lang")>> \o t.entries
                     \o (IF cards # <<>>
                         THEN <<Silence("silence_wordcard")>> \o wc.entries
                         ELSE <<>>)
                     \o (IF a.i < a.total - 1
                         THEN <<Silence("silence_sentence")>>
                         ELSE <<>>)
    IN [a EXCEPT !.i = a.i + 1,
                 !.current_time_ms = after_sentence(cfg, a.i, a.total, sentence_end_ms),
                 !.timeline = Append(a.timeline, timeline_entry(cfg, locals)),
                 !.concat_entries = a.concat_entries \o entries,
                 !.source_files = Append(a.source_files, src),
                 !.target_files = Append(a.target_files, tgt),
                 !.wordcard_files = Append(a.wordcard_files, cards)]

\* verify_and_correct_timeline, a variant that scales every field
scale_entry_all(entry, scale) ==
    [f \in DOMAIN entry |-> RMul(entry[f], scale)]

\* verify_and_correct_timeline, the body of the scaling loop:
\* pause_between stays the same
scale_entry(entry, scale) ==
    [f \in DOMAIN entry |->
        IF f = "pause_between" THEN entry[f] ELSE RMul(entry[f], scale)]

RECURSIVE expected_duration_sec(_, _)
expected_duration_sec(timeline, k) ==
    IF k = 0 THEN RInt(0)
    ELSE RMax(expected_duration_sec(timeline, k - 1), timeline[k].end)

\* verify_and_correct_timeline for a probed duration of actual seconds
verify_and_correct_timeline(timeline, actual) ==
    LET expected == expected_duration_sec(timeline, Len(timeline))
    IN IF timeline = <<>> THEN timeline
       ELSE IF RLe(expected, RInt(0)) THEN timeline
       ELSE IF RLt(RInt(1), RAbs(RSub(actual, expected)))
            THEN [k \in 1..Len(timeline) |->
                     scale_entry(timeline[k], RDiv(actual, expected))]
            ELSE timeline

MaxSentences == 2      \* most sentences in one run

InitCombine ==
    /\ \E cfg \in AssemblerConfigs, total \in 0..MaxSentences :
          asm = [pc |-> "loop", cfg |-> cfg, total |-> total, i |-> 0,
                 current_time_ms |-> 0, timeline |-> <<>>,
                 concat_entries |-> <<>>, source_files |-> <<>>,
                 target_files |-> <<>>, wordcard_files |-> <<>>,
                 temp_dir |-> TRUE, output_ok |-> FALSE,
                 before |-> <<>>, actual |-> RInt(0)]
    /\ limiter = NewLimiter(CHOOSE cfg \in LimiterConfigs : TRUE)
    /\ calls = <<>>
    /\ IdleThreads /\ IdleAdapter /\ IdleJob /\ IdleAux

\* combine_audio_streaming, one iteration of the loop over the sentences
ProcessSentence ==
    /\ asm.pc = "loop"
    /\ asm.i < asm.total
    /\ \E src \in FilesFor(SourceDurations, asm.cfg.speed_source),
          tgt \in FilesFor(TargetDurations, asm.cfg.speed_target),
          cards \in WordcardOptions :
          asm' = process_sentence(asm, src, tgt, cards)
    /\ UNCHANGED <<limVars, thrVars, adVars, job, auxVars>>

\* combine_audio_streaming after the loop: the concat list is written,
\* ffmpeg runs (its return code is only printed), the temp directory is
\* removed and (output_path, timeline) is returned
ConcatAndReturn ==
    /\ asm.pc = "loop"
    /\ asm.i = asm.total
    /\ \E returncode \in {0, 1} :
          asm' = [asm EXCEPT !.pc = "returned",
                             !.output_ok = (returncode = 0),
                             !.temp_dir = FALSE]
    /\ UNCHANGED <<limVars, thrVars, adVars, job, auxVars>>

\* verify_and_correct_timeline on the returned timeline and output file:
\* the probe of a missing output reports 0, a present output is as long as
\* the timeline says or 1 or 2 seconds longer
VerifyAndCorrect ==
    /\ asm.pc = "returned"
    /\ \E extra \in 0..2 :
          LET expected == expected_duration_sec(asm.timeline, Len(asm.timeline))
              actual == IF asm.output_ok THEN RAdd(expected, RInt(extra))
                        ELSE RInt(0)
          IN /\ ~asm.output_ok => extra = 0
             /\ asm' = [asm EXCEPT !.pc = "verified",
                                   !.before = asm.timeline,
                                   !.actual = actual,
                                   !.timeline =
                                       verify_and_correct_timeline(asm.timeline, actual)]
    /\ UNCHANGED <<limVars, thrVars, adVars, job, auxVars>>

NextCombine ==
    \/ ProcessSentence
    \/ ConcatAndReturn
    \/ VerifyAndCorrect

SpecCombine == InitCombine /\ [][NextCombine]_vars

\* the timeline as combine_audio_streaming builds and returns it, before
\* any verify_and_correct_timeline
Combining == asm.pc \in {"loop", "returned"}

WordcardDuration(entry) ==
    IF "wordcard_duration" \in DOMAIN entry THEN entry.wordcard_duration
    ELSE RInt(0)

SentenceLength(entry) ==
    RAdd(entry.source_duration,
         RAdd(entry.pause_between,
              RAdd(entry.target_duration, WordcardDuration(entry))))

\* C3 as stated: start + source_duration + pause_between + target_duration
\* + wordcard_duration = end for every entry, with or without word cards.
TimelineEquation ==
    Combining =>
        \A k \in 1..Len(asm.timeline) :
            RAdd(asm.timeline[k].start, SentenceLength(asm.timeline[k]))
                = asm.timeline[k].end

\* C3: for every timeline entry returned by combine_audio_streaming,
\* start + source_duration + pause_between + target_duration
\* + wordcard_duration = end when the sentence has no word-card list, and
\* the same sum plus pause_before_wordcard = end when its word-card list is
\* not empty (wordcard_duration taken as 0 when the entry has none).
TimelineEquationWithWordcardPause ==
    Combining =>
        \A k \in 1..Len(asm.timeline) :
            LET e == asm.timeline[k]
                before_cards ==
                    IF asm.wordcard_files[k] # <<>>
                    THEN Seconds(asm.cfg.pause_before_wordcard_ms)
                    ELSE RInt(0)
            IN RAdd(e.start, RAdd(SentenceLength(e), before_cards)) = e.end

\* a returned timeline with a sentence without word cards, one with word
\* cards and one whose word-card list yields no audio
TimelineEquationWitness ==
    /\ asm.pc = "returned"
    /\ \E k \in 1..Len(asm.timeline) :
          /\ asm.wordcard_files[k] = <<>>
          /\ asm.timeline[k].source_duration # RInt(0)
    /\ \E k \in 1..Len(asm.timeline) :
          /\ "wordcard_start" \in DOMAIN asm.timeline[k]
          /\ asm.timeline[k].pause_between # RInt(0)
          /\ asm.timeline[k].target_duration # RInt(0)

\* the example run: source 2.0 and 3.0 s, target 2.5 and 2.0 s, pauses 0.5
\* and 0.8 s, no word cards
ExampleRun ==
    /\ asm.pc = "returned"
    /\ asm.cfg.pause_between_langs_ms = 500
    /\ asm.cfg.pause_between_sentences_ms = 800
    /\ Len(asm.timeline) = 2
    /\ asm.wordcard_files = << <<>>, <<>> >>
    /\ asm.timeline[1].source_duration = RInt(2)
    /\ asm.timeline[1].target_duration = Rat(5, 2)
    /\ asm.timeline[2].source_duration = RInt(3)
    /\ asm.timeline[2].target_duration = RInt(2)

StartsAndEnds(timeline) ==
    [k \in 1..Len(timeline) |-> <<timeline[k].start, timeline[k].end>>]

\* C4 as stated: entry 0 starts at 0, start[i+1] = end[i] +
\* pause_between_sentences, starts are strictly ascending and
\* end[i] <= start[i+1]; the example run gives (0, 5.0) and (5.8, 10.3).
TimelineStrictlyAscending ==
    Combining =>
        /\ asm.timeline # <<>> => asm.timeline[1].start = RInt(0)
        /\ \A k \in 1..(Len(asm.timeline) - 1) :
              /\ asm.timeline[k + 1].start
                   = RAdd(asm.timeline[k].end,
                          Seconds(asm.cfg.pause_between_sentences_ms))
              /\ RLt(asm.timeline[k].start, asm.timeline[k + 1].start)
              /\ RLe(asm.timeline[k].end, asm.timeline[k + 1].start)
        /\ ExampleRun =>
              StartsAndEnds(asm.timeline)
                = << <<RInt(0), RInt(5)>>, <<Rat(58, 10), Rat(103, 10)>> >>

\* C4: in the timeline returned by combine_audio_streaming (pauses not
\* negative), entry 0 starts at 0, start[i+1] = end[i] +
\* pause_between_sentences, end[i] <= start[i+1] and starts never descend;
\* they are strictly ascending when pause_between_langs +
\* pause_between_sentences > 0.  The example run gives (0, 5.0) and
\* (5.8, 11.3).
TimelineAscending ==
    Combining =>
        /\ asm.timeline # <<>> => asm.timeline[1].start = RInt(0)
        /\ \A k \in 1..(Len(asm.timeline) - 1) :
              /\ asm.timeline[k + 1].start
                   = RAdd(asm.timeline[k].end,
                          Seconds(asm.cfg.pause_between_sentences_ms))
              /\ RLe(asm.timeline[k].start, asm.timeline[k + 1].start)
              /\ RLe(asm.timeline[k].end, asm.timeline[k + 1].start)
              /\ asm.cfg.pause_between_langs_ms
                   + asm.cfg.pause_between_sentences_ms > 0
                 => RLt(asm.timeline[k].start, asm.timeline[k + 1].start)
        /\ ExampleRun =>
              StartsAndEnds(asm.timeline)
                = << <<RInt(0), RInt(5)>>, <<Rat(58, 10), Rat(113, 10)>> >>

\* the example run has returned, its second sentence starting one pause
\* after the end of the first
TimelineExampleWitness ==
    /\ ExampleRun
    /\ asm.timeline[2].start
         = RAdd(asm.timeline[1].end, Seconds(asm.cfg.pause_between_sentences_ms))
    /\ RLt(asm.timeline[1].start, asm.timeline[2].start)

Expected == expected_duration_sec(asm.before, Len(asm.before))
Drifted == RLt(RInt(1), RAbs(RSub(asm.actual, Expected)))

OutputExistsOnReturn ==
    asm.pc = "returned" => asm.output_ok

(***************************************************************************)
(* Language codes (src/core/languages.py) and the entry points that take   *)
(* one.                                                                    *)
(***************************************************************************)
Language(code, tts_code, wordfreq_code) ==
    [code |-> code, tts_code |-> tts_code, wordfreq_code |-> wordfreq_code]

\* RUSSIAN, ENGLISH, ENGLISH_GB, SPANISH, SPANISH_LATAM, PORTUGUESE_BR,
\* GERMAN, FRENCH
ALL_LANGUAGES ==
    {Language("ru", "ru-RU", "ru"), Language("en", "en-US", "en"),
     Language("en-GB", "en-GB", "en"), Language("es", "es-ES", "es"),
     Language("es-latam", "es-US", "es"), Language("pt-BR", "pt-BR", "pt"),
     Language("de", "de-DE", "de"), Language("fr", "fr-FR", "fr")}

LANGUAGE_MAP == [c \in {lang.code : lang \in ALL_LANGUAGES} |->
                    CHOOSE lang \in ALL_LANGUAGES : lang.code = c]

ALIASES ==
    [c \in {"es-ar", "es-419", "es-US", "es-ES", "en-US", "ru-RU", "pt"} |->
        CASE c \in {"es-ar", "es-419", "es-US"} -> LANGUAGE_MAP["es-latam"]
          [] c = "es-ES" -> LANGUAGE_MAP["es"]
          [] c = "en-US" -> LANGUAGE_MAP["en"]
          [] c = "ru-RU" -> LANGUAGE_MAP["ru"]
          [] c = "pt" -> LANGUAGE_MAP["pt-BR"]]

\* the codes a caller passes: registered codes, aliases, other spellings of
\* them, and codes of no registered language
Codes ==
    {"ru", "RU", "ES", "en", "en-GB", "en-gb", "es", "es-latam", "pt-BR", "pt",
     "de", "fr", "es-ar", "es-AR", "es-419", "es-US", "es-ES", "en-US",
     "ru-RU", "xx", "XX", "xx-YY", "it", "es-mx"}

\* str.lower()
Lower(c) ==
    CASE c = "RU" -> "ru"
      [] c = "ES" -> "es"
      [] c = "en-GB" -> "en-gb"
      [] c = "pt-BR" -> "pt-br"
      [] c = "es-AR" -> "es-ar"
      [] c = "es-US" -> "es-us"
      [] c = "es-ES" -> "es-es"
      [] c = "en-US" -> "en-us"
      [] c = "ru-RU" -> "ru-ru"
      [] c = "XX" -> "xx"
      [] c = "xx-YY" -> "xx-yy"
      [] OTHER -> c

\* code.split("-")[0]
BeforeDash(c) ==
    CASE c \in {"en-GB", "en-gb", "en-US"} -> "en"
      [] c \in {"es-latam", "es-ar", "es-419", "es-US", "es-ES", "es-mx"} -> "es"
      [] c = "es-AR" -> "es"
      [] c = "pt-BR" -> "pt"
      [] c = "ru-RU" -> "ru"
      [] c = "xx-YY" -> "xx"
      [] OTHER -> c

NoLanguage == [code |-> "None"]

\* get_language: the direct match, the aliases, then the match on the
\* lower-cased registered codes, all on code.lower()
get_language(code) ==
    LET code_lower == Lower(code)
    IN IF code_lower \in DOMAIN LANGUAGE_MAP THEN LANGUAGE_MAP[code_lower]
       ELSE IF code_lower \in DOMAIN ALIASES THEN ALIASES[code_lower]
       ELSE IF \E lang \in ALL_LANGUAGES : Lower(lang.code) = code_lower
            THEN CHOOSE lang \in ALL_LANGUAGES : Lower(lang.code) = code_lower
            ELSE NoLanguage

normalize_code(code) ==
    LET lang == get_language(code)
    IN IF lang # NoLanguage THEN lang.code ELSE Lower(code)

get_wordfreq_code(code) ==
    LET lang == get_language(code)
    IN IF lang # NoLanguage THEN lang.wordfreq_code ELSE Lower(BeforeDash(code))

get_tts_code(code) ==
    LET lang == get_language(code)
    IN IF lang # NoLanguage THEN lang.tts_code ELSE code

GTTS_LANG_MAP ==
    [c \in {"ru", "en", "es", "es-latam"} |-> IF c = "es-latam" THEN "es" ELSE c]
DEEPL_LANG_MAP == GTTS_LANG_MAP

VOICE_MAP_KEYS ==
    {"ru", "ru-m", "es", "es-m", "es-ES", "es-ES-m", "es-latam", "es-latam-m",
     "es-ar", "es-ar-m", "es-US", "es-US-m", "en", "en-m", "en-US", "en-US-m",
     "en-GB", "en-GB-m", "pt", "pt-m", "pt-BR", "pt-PT", "de", "fr", "it",
     "ja", "ko", "zh"}

OPENAI_LANGUAGE_PROMPTS ==
    {"es-latam", "es-ar", "es-US", "es", "es-ES", "en", "en-US", "en-GB"}
GEMINI_LANGUAGE_PROMPTS == {"es-latam", "es-ar", "es-US", "es", "es-ES"}

Returned(value) == [outcome |-> "returned", error |-> "none", value |-> value]
Raised(error) == [outcome |-> "raised", error |-> error, value |-> "none"]

\* what each entry point does with its language code: the value it settles
\* on (normalized code, provider code, prompt or voice key) or the error
LanguageEntry(name, code) ==
    CASE name = "normalize_code" -> Returned(normalize_code(code))
      [] name = "get_wordfreq_code" -> Returned(get_wordfreq_code(code))
      [] name = "get_tts_code" -> Returned(get_tts_code(code))
      [] name \in {"TextSplitter", "WordFrequencyAnalyzer"} ->
            IF get_language(code) = NoLanguage
            THEN Raised("UnsupportedLanguageError")
            ELSE Returned(get_language(code).code)
      [] name = "GTTSProvider" ->
            Returned(IF code \in DOMAIN GTTS_LANG_MAP THEN GTTS_LANG_MAP[code]
                     ELSE code)
      [] name = "GoogleCloudTTS" ->
            IF code \in VOICE_MAP_KEYS THEN Returned(code)
            ELSE IF get_language(code) # NoLanguage
                    /\ get_language(code).code \in VOICE_MAP_KEYS
                 THEN Returned(get_language(code).code)
                 ELSE Raised("UnsupportedLanguageError")
      [] name = "DeepLFreeTranslator" ->
            Returned(IF code \in DOMAIN DEEPL_LANG_MAP THEN DEEPL_LANG_MAP[code]
                     ELSE code)
      [] name = "OpenAIGPTTranslator" ->
            IF code \in OPENAI_LANGUAGE_PROMPTS THEN Returned(code)
            ELSE Raised("ValueError")
      [] name = "OpenAIGPTTranslator.translate" ->
            Returned(IF code \in OPENAI_LANGUAGE_PROMPTS THEN code ELSE "es-latam")
      [] name = "GeminiTranslator" ->
            Returned(IF code \in GEMINI_LANGUAGE_PROMPTS THEN code ELSE "es-latam")

LanguageEntryPoints ==
    {"normalize_code", "get_wordfreq_code", "get_tts_code", "TextSplitter",
     "WordFrequencyAnalyzer", "GTTSProvider", "GoogleCloudTTS",
     "DeepLFreeTranslator", "OpenAIGPTTranslator",
     "OpenAIGPTTranslator.translate", "GeminiTranslator"}

IdleOthers ==
    /\ limiter = NewLimiter(CHOOSE cfg \in LimiterConfigs : TRUE)
    /\ calls = <<>>
    /\ IdleThreads /\ IdleAdapter /\ IdleJob /\ IdleAssembler

InitLanguages ==
    /\ \E name \in LanguageEntryPoints, code \in Codes :
          fn = [pc |-> "called", name |-> name, code |-> code]
    /\ pipe = [pc |-> "idle"]
    /\ IdleOthers

\* one call of an entry point with a language code
CallWithLanguage(name) ==
    /\ fn.pc = "called"
    /\ fn.name = name
    /\ LET r == LanguageEntry(name, fn.code)
       IN fn' = [pc |-> "done", name |-> name, code |-> fn.code,
                 outcome |-> r.outcome, error |-> r.error, value |-> r.value]
    /\ UNCHANGED <<limVars, thrVars, adVars, job, asm, pipe>>

NextLanguages == \E name \in LanguageEntryPoints : CallWithLanguage(name)

SpecLanguages == InitLanguages /\ [][NextLanguages]_vars

UnknownCode(code) ==
    Lower(code) \notin {Lower(c) : c \in DOMAIN LANGUAGE_MAP \cup DOMAIN ALIASES}

\* C11: every entry point that takes a language code fails with
\* UnsupportedLanguageError for a code that is neither a registered code nor
\* an alias; none passes the code through or substitutes a default.
UnknownLanguageRejected ==
    (fn.pc = "done" /\ fn.name \in LanguageEntryPoints /\ UnknownCode(fn.code))
        => (fn.outcome = "raised" /\ fn.error = "UnsupportedLanguageError")

(***************************************************************************)
(* The pipeline of steps driven by cmd_run / cmd_resume (src/main.py).     *)
(* Pipeline.run and the project store are not among the sources; they are  *)
(* modelled from the specification's orchestrator section.                 *)
(***************************************************************************)
STEPS ==
    <<"sentences", "translations", "rare_words_extract", "rare_words_translate",
      "tts_source", "tts_target", "tts_wordcards", "audio_combined", "video">>

StepNames == {STEPS[k] : k \in 1..Len(STEPS)}
TtsSteps == {"tts_source", "tts_target", "tts_wordcards"}

\* position in the fixed order; the tts_* steps share one position
StepRank(s) ==
    CASE s = "sentences" -> 1
      [] s = "translations" -> 2
      [] s = "rare_words_extract" -> 3
      [] s = "rare_words_translate" -> 4
      [] s \in TtsSteps -> 5
      [] s = "audio_combined" -> 6
      [] s = "video" -> 7

StopAfterHints == {"none", "sentences", "rare_words_extract", "rare_words_translate"}

\* the steps of a run: tts_wordcards only with enable_wordcard_audio, and
\* none after the stop_after step
RunSteps(p) ==
    {s \in StepNames :
        /\ s = "tts_wordcards" => p.enable_wordcard_audio
        /\ p.stop_after # "none" => StepRank(s) <= StepRank(p.stop_after)}

\* a step may start when it is not complete, not being worked on, and every
\* step before it in the order is complete; a variant that only asks the
\* steps before it not to be pending
CanStartAfterAttempted(p, s) ==
    /\ s \in RunSteps(p)
    /\ s \notin p.active
    /\ p.status[s] # "complete"
    /\ \A t \in StepNames :
          (StepRank(t) < StepRank(s) /\ (t = "tts_wordcards" => p.enable_wordcard_audio))
              => p.status[t] # "pending"

\* a step may start when it is not complete, not being worked on, and every
\* step before it in the order is complete
CanStart(p, s) ==
    /\ s \in RunSteps(p)
    /\ s \notin p.active
    /\ p.status[s] # "complete"
    /\ \A t \in StepNames :
          (StepRank(t) < StepRank(s) /\ (t = "tts_wordcards" => p.enable_wordcard_audio))
              => p.status[t] = "complete"

\* cmd_run on a new project: every step pending
InitPipeline ==
    /\ \E wc \in BOOLEAN, stop \in StopAfterHints :
          pipe = [pc |-> "running", enable_wordcard_audio |-> wc,
                  stop_after |-> stop,
                  status |-> [s \in StepNames |-> "pending"],
                  active |-> {}, started |-> {}]
    /\ fn = [pc |-> "idle"]
    /\ IdleOthers

\* Pipeline.run, entering a step: mark it running
StartStep(s) ==
    /\ pipe.pc = "running"
    /\ CanStart(pipe, s)
    /\ pipe' = [pipe EXCEPT !.status[s] = "running",
                            !.active = pipe.active \cup {s},
                            !.started = pipe.started \cup {s}]
    /\ UNCHANGED <<limVars, thrVars, adVars, job, asm, fn>>

\* the pending set of a step is empty: mark it complete
CompleteStep(s) ==
    /\ pipe.pc = "running"
    /\ s \in pipe.active
    /\ pipe' = [pipe EXCEPT !.status[s] = "complete",
                            !.active = pipe.active \ {s}]
    /\ UNCHANGED <<limVars, thrVars, adVars, job, asm, fn>>

\* an unhandled adapter failure: mark the step failed and raise
FailStep(s) ==
    /\ pipe.pc = "running"
    /\ s \in pipe.active
    /\ pipe' = [pipe EXCEPT !.status[s] = "failed", !.active = {},
                            !.pc = "stopped"]
    /\ UNCHANGED <<limVars, thrVars, adVars, job, asm, fn>>

\* the process is killed: the stored statuses stay as they are
Kill ==
    /\ pipe.pc = "running"
    /\ pipe' = [pipe EXCEPT !.active = {}, !.pc = "stopped"]
    /\ UNCHANGED <<limVars, thrVars, adVars, job, asm, fn>>

\* Pipeline.run returns: nothing is being worked on and nothing can start
FinishRun ==
    /\ pipe.pc = "running"
    /\ pipe.active = {}
    /\ \A s \in StepNames : ~CanStart(pipe, s)
    /\ pipe' = [pipe EXCEPT !.pc = "stopped"]
    /\ UNCHANGED <<limVars, thrVars, adVars, job, asm, fn>>

\* cmd_resume: a new Pipeline.run on the stored statuses
Resume ==
    /\ pipe.pc = "stopped"
    /\ pipe' = [pipe EXCEPT !.pc = "running", !.stop_after = "none",
                            !.started = {}]
    /\ UNCHANGED <<limVars, thrVars, adVars, job, asm, fn>>

\* cmd_run --force on an existing project: video and audio_combined are
\* reset to pending, then Pipeline.run
ForceRun ==
    /\ pipe.pc = "stopped"
    /\ \E stop \in StopAfterHints :
          pipe' = [pipe EXCEPT !.pc = "running", !.stop_after = stop,
                               !.started = {},
                               !.status["video"] = "pending",
                               !.status["audio_combined"] = "pending"]
    /\ UNCHANGED <<limVars, thrVars, adVars, job, asm, fn>>

NextPipeline ==
    \/ \E s \in StepNames : StartStep(s) \/ CompleteStep(s) \/ FailStep(s)
    \/ Kill
    \/ FinishRun
    \/ Resume
    \/ ForceRun

SpecPipeline == InitPipeline /\ [][NextPipeline]_vars

MaxRareSentences == 2  \* most sentences passed to the rare-word functions
MaxPool == 2           \* most words in the pool, and in one sentence

\* int(round(x)) of Python 3: halves go to the even neighbour
RoundHalfEven(x) ==
    LET floor == x[1] \div x[2]
        twice == 2 * (x[1] - floor * x[2])
    IN IF twice < x[2] THEN floor
       ELSE IF twice > x[2] THEN floor + 1
       ELSE IF floor % 2 = 0 THEN floor ELSE floor + 1

RECURSIVE SumSeq(_, _)
SumSeq(s, k) == IF k = 0 THEN 0 ELSE s[k] + SumSeq(s, k - 1)

IntMin(a, b) == IF a < b THEN a ELSE b
IntMax(a, b) == IF a > b THEN a ELSE b

\* the target word count of every sentence, a variant that forgets the
\* upper clamp
rare_word_targets_unclamped(sentence_lengths, min_per_sentence, max_per_sentence, target_avg) ==
    LET n == Len(sentence_lengths)
        total == SumSeq(sentence_lengths, n)
    IN [i \in 1..n |->
          IF sentence_lengths[i] = 0 THEN 0
          ELSE IntMax(min_per_sentence,
                      RoundHalfEven(RMul(target_avg,
                                         Rat(sentence_lengths[i] * n, total))))]

\* the target word count of every sentence
rare_word_targets(sentence_lengths, min_per_sentence, max_per_sentence, target_avg) ==
    LET n == Len(sentence_lengths)
        total == SumSeq(sentence_lengths, n)
    IN [i \in 1..n |->
          IF sentence_lengths[i] = 0 THEN 0
          ELSE LET ratio == Rat(sentence_lengths[i] * n, total)
                   target == RoundHalfEven(RMul(target_avg, ratio))
               IN IntMax(min_per_sentence, IntMin(max_per_sentence, target))]

\* first pass from word k on: a word goes to its first sentence if that one
\* still needs words
RECURSIVE rare_first_pass(_, _, _, _)
rare_first_pass(pool, k, targets, st) ==
    IF k > Len(pool) THEN st
    ELSE LET first_sent == IF pool[k] # <<>> THEN pool[k][1] ELSE 0
             next ==
                 IF first_sent # 0 /\ Len(st.result[first_sent]) < targets[first_sent]
                 THEN [result |-> [st.result EXCEPT
                                     ![first_sent] = Append(st.result[first_sent], k)],
                       used |-> st.used \cup {k}]
                 ELSE st
         IN rare_first_pass(pool, k + 1, targets, next)

\* second pass from word k on: an unused word goes to the first of its
\* sentences that still needs words
RECURSIVE rare_second_pass(_, _, _, _)
rare_second_pass(pool, k, targets, st) ==
    IF k > Len(pool) THEN st
    ELSE LET open == {j \in 1..Len(pool[k]) :
                         Len(st.result[pool[k][j]]) < targets[pool[k][j]]}
             next ==
                 IF k \notin st.used /\ open # {}
                 THEN LET j == CHOOSE j \in open : \A m \in open : j <= m
                          sent_idx == pool[k][j]
                      IN [result |-> [st.result EXCEPT
                                        ![sent_idx] = Append(st.result[sent_idx], k)],
                          used |-> st.used \cup {k}]
                 ELSE st
         IN rare_second_pass(pool, k + 1, targets, next)

\* get_rare_words_for_sentences, a variant whose second pass forgets the
\* words the first pass used
get_rare_words_forgetting_used(a) ==
    LET targets == rare_word_targets(a.sentence_lengths, a.min_per_sentence,
                                     a.max_per_sentence, a.target_avg)
        empty == [result |-> [i \in 1..Len(a.sentence_lengths) |-> <<>>], used |-> {}]
        first == rare_first_pass(a.pool, 1, targets, empty)
        second == rare_second_pass(a.pool, 1, targets, [first EXCEPT !.used = {}])
    IN [i \in 1..Len(a.sentence_lengths) |->
          SortSeq(second.result[i], LAMBDA x, y : x < y)]

\* get_rare_words_for_sentences, a variant without the second pass
get_rare_words_first_pass_only(a) ==
    LET targets == rare_word_targets(a.sentence_lengths, a.min_per_sentence,
                                     a.max_per_sentence, a.target_avg)
        empty == [result |-> [i \in 1..Len(a.sentence_lengths) |-> <<>>], used |-> {}]
        first == rare_first_pass(a.pool, 1, targets, empty)
    IN [i \in 1..Len(a.sentence_lengths) |->
          SortSeq(first.result[i], LAMBDA x, y : x < y)]

\* get_rare_words_for_sentences; each list is sorted by rarity at the end
get_rare_words_for_sentences(a) ==
    LET targets == rare_word_targets(a.sentence_lengths, a.min_per_sentence,
                                     a.max_per_sentence, a.target_avg)
        empty == [result |-> [i \in 1..Len(a.sentence_lengths) |-> <<>>], used |-> {}]
        first == rare_first_pass(a.pool, 1, targets, empty)
        second == rare_second_pass(a.pool, 1, targets, first)
    IN [i \in 1..Len(a.sentence_lengths) |->
          SortSeq(second.result[i], LAMBDA x, y : x < y)]

\* get_top_rare_per_sentence on the scored words of each sentence, given as
\* lemmas sorted by zipf: from sentence i on, with the lemmas seen so far
RECURSIVE top_rare_sentence(_, _, _, _, _)
top_rare_sentence(word_data, k, max_per_sentence, seen_lemmas, sentence_result) ==
    IF k > Len(word_data) THEN sentence_result
    ELSE IF word_data[k] \in seen_lemmas
         THEN top_rare_sentence(word_data, k + 1, max_per_sentence, seen_lemmas,
                                sentence_result)
         ELSE LET taken == Append(sentence_result, word_data[k])
              IN IF Len(taken) >= max_per_sentence THEN taken
                 ELSE top_rare_sentence(word_data, k + 1, max_per_sentence,
                                        seen_lemmas \cup {word_data[k]}, taken)

RECURSIVE get_top_rare_per_sentence(_, _, _, _)
get_top_rare_per_sentence(sentences, i, max_per_sentence, seen_lemmas) ==
    IF i > Len(sentences) THEN <<>>
    ELSE LET sentence_result ==
                 top_rare_sentence(sentences[i], 1, max_per_sentence, seen_lemmas, <<>>)
             seen == seen_lemmas \cup {sentence_result[k] : k \in 1..Len(sentence_result)}
         IN <<sentence_result>>
              \o get_top_rare_per_sentence(sentences, i + 1, max_per_sentence, seen)

SeqsUpTo(S, n) == UNION { [1..k -> S] : k \in 0..n }

\* the "sentences" list of a pool word: sentence indices in ascending order
OccurrenceLists(n) ==
    {s \in SeqsUpTo(1..n, n) : \A j \in 1..(Len(s) - 1) : s[j] < s[j + 1]}

RareWordParameters ==
    {[min_per_sentence |-> 0, max_per_sentence |-> 6],
     [min_per_sentence |-> 0, max_per_sentence |-> 1],
     [min_per_sentence |-> 1, max_per_sentence |-> 2],
     [min_per_sentence |-> 2, max_per_sentence |-> 1],
     [min_per_sentence |-> -1, max_per_sentence |-> -1]}

Lemmas == {"a", "b"}

InitRareWords ==
    /\ \/ \E n \in 1..MaxRareSentences :
          \E lengths \in [1..n -> {0, 1, 3}],
             pool \in SeqsUpTo(OccurrenceLists(n), MaxPool),
             par \in RareWordParameters, target_avg \in {RInt(5), RInt(1)} :
             fn = [pc |-> "called", name |-> "get_rare_words_for_sentences",
                   sentence_lengths |-> lengths, pool |-> pool,
                   min_per_sentence |-> par.min_per_sentence,
                   max_per_sentence |-> par.max_per_sentence,
                   target_avg |-> target_avg]
       \/ \E sentences \in SeqsUpTo(SeqsUpTo(Lemmas, MaxPool), MaxRareSentences),
             max_per_sentence \in 0..2 :
             fn = [pc |-> "called", name |-> "get_top_rare_per_sentence",
                   sentences |-> sentences, max_per_sentence |-> max_per_sentence]
    /\ pipe = [pc |-> "idle"]
    /\ IdleOthers

GetRareWordsForSentences ==
    /\ fn.pc = "called"
    /\ fn.name = "get_rare_words_for_sentences"
    /\ fn' = [fn EXCEPT !.pc = "done"] @@ [result |-> get_rare_words_for_sentences(fn)]
    /\ UNCHANGED <<limVars, thrVars, adVars, job, asm, pipe>>

GetTopRarePerSentence ==
    /\ fn.pc = "called"
    /\ fn.name = "get_top_rare_per_sentence"
    /\ fn' = [fn EXCEPT !.pc = "done"]
               @@ [result |-> get_top_rare_per_sentence(fn.sentences, 1,
                                                        fn.max_per_sentence, {})]
    /\ UNCHANGED <<limVars, thrVars, adVars, job, asm, pipe>>

NextRareWords == GetRareWordsForSentences \/ GetTopRarePerSentence

SpecRareWords == InitRareWords /\ [][NextRareWords]_vars

RareWordsDone ==
    fn.pc = "done"
      /\ fn.name \in {"get_rare_words_for_sentences", "get_top_rare_per_sentence"}

\* C13: across all per-sentence lists returned by
\* get_rare_words_for_sentences and by get_top_rare_per_sentence each lemma
\* (pool word) appears at most once.
RareWordsUnique ==
    RareWordsDone =>
        \A i, j \in 1..Len(fn.result) :
            \A k \in 1..Len(fn.result[i]), m \in 1..Len(fn.result[j]) :
                fn.result[i][k] = fn.result[j][m] => (i = j /\ k = m)

\* two sentences sharing a pool word, each of which received a word
RareWordsUniqueWitness ==
    /\ RareWordsDone
    /\ fn.name = "get_rare_words_for_sentences"
    /\ \E k \in 1..Len(fn.pool) : Len(fn.pool[k]) >= 2
    /\ \E i, j \in 1..Len(fn.result) :
          i # j /\ fn.result[i] # <<>> /\ fn.result[j] # <<>>

\* round(target_avg * len_i / avg_len) clamped to [min_per_sentence,
\* max_per_sentence], for sentence i of a finished call
ClampedTarget(i) ==
    LET n == Len(fn.sentence_lengths)
        total == SumSeq(fn.sentence_lengths, n)
        rounded == IF total = 0 THEN 0
                   ELSE RoundHalfEven(RMul(fn.target_avg,
                                           Rat(fn.sentence_lengths[i] * n, total)))
    IN IntMax(fn.min_per_sentence, IntMin(fn.max_per_sentence, rounded))

RareWordsBudget ==
    \A i \in 1..Len(fn.result) :
        /\ Len(fn.result[i]) <= fn.max_per_sentence
        /\ Len(fn.result[i]) <= ClampedTarget(i)
        /\ fn.sentence_lengths[i] = 0 => fn.result[i] = <<>>

\* C14 as stated: for all parameter values every list of
\* get_rare_words_for_sentences is no longer than max_per_sentence nor than
\* the sentence's clamped target, and a sentence without valid words gets
\* an empty list.
RareWordsWithinBudget ==
    (RareWordsDone /\ fn.name = "get_rare_words_for_sentences") => RareWordsBudget

\* C14: when 0 <= max_per_sentence, min_per_sentence <= max_per_sentence
\* and target_avg >= 0, every list of get_rare_words_for_sentences is no
\* longer than max_per_sentence nor than the sentence's target count
\* round(target_avg * len_i / avg_len) clamped to [min_per_sentence,
\* max_per_sentence]; for all parameter values a sentence with no valid
\* words gets an empty list.
RareWordsWithinOrderedBudget ==
    (RareWordsDone /\ fn.name = "get_rare_words_for_sentences") =>
        /\ (0 <= fn.max_per_sentence /\ fn.min_per_sentence <= fn.max_per_sentence
              /\ RLe(RInt(0), fn.target_avg))
             => RareWordsBudget
        /\ \A i \in 1..Len(fn.result) :
              fn.sentence_lengths[i] = 0 => fn.result[i] = <<>>

\* a sentence without valid words that a pool word lists, and a sentence
\* filled to max_per_sentence while a pool word that lists it stays unused
RareWordsBudgetWitness ==
    /\ RareWordsDone
    /\ fn.name = "get_rare_words_for_sentences"
    /\ 1 <= fn.max_per_sentence
    /\ fn.min_per_sentence <= fn.max_per_sentence
    /\ \E i \in 1..Len(fn.result) :
          /\ fn.sentence_lengths[i] = 0
          /\ \E k \in 1..Len(fn.pool) : fn.pool[k] # <<>> /\ fn.pool[k][1] = i
    /\ \E i \in 1..Len(fn.result) :
          /\ Len(fn.result[i]) = fn.max_per_sentence
          /\ \E k \in 1..Len(fn.pool) :
                /\ \E j \in 1..Len(fn.pool[k]) : fn.pool[k][j] = i
                /\ \A j \in 1..Len(fn.result) :
                      \A m \in 1..Len(fn.result[j]) : fn.result[j][m] # k

\* ---------------------------------------------------------------------
\* TextSplitter (src/core/text_splitter.py).
\*
\* A text is a sequence of characters.  An ASCII character is written as
\* itself, any other character by its code point ("U+2026" is the
\* horizontal ellipsis, "U+2014" the em-dash, "U+0410" the Cyrillic capital
\* A).  A placeholder that _protect_abbreviations substitutes ("_INIT_",
\* "_ELLIPSIS_", "_ABBR_Dr_DOT__", ...) is one element of the sequence: it
\* begins and ends with an underscore, so the regular expressions see it as
\* word characters that are not letters, and no input of the model
\* contains an underscore.
\*
\* sent_tokenize belongs to the NLTK package; the model follows the branch
\* taken when NLTK_AVAILABLE is False or sent_tokenize raises, which is
\* _split_regex.

HORIZONTAL_ELLIPSIS == "U+2026"
EM_DASH == "U+2014"
EN_DASH == "U+2013"

LatinUpper == <<
    "A", "B", "C", "D", "E", "F", "G", "H", "I", "J", "K", "L", "M", "N", "O", "P", "Q", "R",
    "S", "T", "U", "V", "W", "X", "Y", "Z" >>
LatinLower == <<
    "a", "b", "c", "d", "e", "f", "g", "h", "i", "j", "k", "l", "m", "n", "o", "p", "q", "r",
    "s", "t", "u", "v", "w", "x", "y", "z" >>
CyrillicUpper == {
    "U+0410", "U+0411", "U+0412", "U+0413", "U+0414", "U+0415", "U+0416", "U+0417", "U+0418",
    "U+0419", "U+041A", "U+041B", "U+041C", "U+041D", "U+041E", "U+041F", "U+0420", "U+0421",
    "U+0422", "U+0423", "U+0424", "U+0425", "U+0426", "U+0427", "U+0428", "U+0429", "U+042A",
    "U+042B", "U+042C", "U+042D", "U+042E", "U+042F", "U+0401" }
CyrillicLower == {
    "U+0430", "U+0431", "U+0432", "U+0433", "U+0434", "U+0435", "U+0436", "U+0437", "U+0438",
    "U+0439", "U+043A", "U+043B", "U+043C", "U+043D", "U+043E", "U+043F", "U+0440", "U+0441",
    "U+0442", "U+0443", "U+0444", "U+0445", "U+0446", "U+0447", "U+0448", "U+0449", "U+044A",
    "U+044B", "U+044C", "U+044D", "U+044E", "U+044F", "U+0451" }
ABBREVIATIONS == [
    en |-> <<
        [abbr |-> <<"M", "r", ".">>, placeholder |-> "_ABBR_Mr_DOT__"],
        [abbr |-> <<"M", "r", "s", ".">>, placeholder |-> "_ABBR_Mrs_DOT__"],
        [abbr |-> <<"M", "s", ".">>, placeholder |-> "_ABBR_Ms_DOT__"],
        [abbr |-> <<"D", "r", ".">>, placeholder |-> "_ABBR_Dr_DOT__"],
        [abbr |-> <<"P", "r", "o", "f", ".">>, placeholder |-> "_ABBR_Prof_DOT__"],
        [abbr |-> <<"J", "r", ".">>, placeholder |-> "_ABBR_Jr_DOT__"],
        [abbr |-> <<"S", "r", ".">>, placeholder |-> "_ABBR_Sr_DOT__"],
        [abbr |-> <<"v", "s", ".">>, placeholder |-> "_ABBR_vs_DOT__"],
        [abbr |-> <<"e", "t", "c", ".">>, placeholder |-> "_ABBR_etc_DOT__"],
        [abbr |-> <<"i", ".", "e", ".">>, placeholder |-> "_ABBR_i_DOT_e_DOT__"],
        [abbr |-> <<"e", ".", "g", ".">>, placeholder |-> "_ABBR_e_DOT_g_DOT__"],
        [abbr |-> <<"I", "n", "c", ".">>, placeholder |-> "_ABBR_Inc_DOT__"],
        [abbr |-> <<"L", "t", "d", ".">>, placeholder |-> "_ABBR_Ltd_DOT__"],
        [abbr |-> <<"C", "o", ".">>, placeholder |-> "_ABBR_Co_DOT__"],
        [abbr |-> <<"C", "o", "r", "p", ".">>, placeholder |-> "_ABBR_Corp_DOT__"],
        [abbr |-> <<"A", "v", "e", ".">>, placeholder |-> "_ABBR_Ave_DOT__"],
        [abbr |-> <<"S", "t", ".">>, placeholder |-> "_ABBR_St_DOT__"],
        [abbr |-> <<"R", "d", ".">>, placeholder |-> "_ABBR_Rd_DOT__"],
        [abbr |-> <<"M", "t", ".">>, placeholder |-> "_ABBR_Mt_DOT__"],
        [abbr |-> <<"f", "t", ".">>, placeholder |-> "_ABBR_ft_DOT__"],
        [abbr |-> <<"o", "z", ".">>, placeholder |-> "_ABBR_oz_DOT__"],
        [abbr |-> <<"l", "b", ".">>, placeholder |-> "_ABBR_lb_DOT__"],
        [abbr |-> <<"J", "a", "n", ".">>, placeholder |-> "_ABBR_Jan_DOT__"],
        [abbr |-> <<"F", "e", "b", ".">>, placeholder |-> "_ABBR_Feb_DOT__"],
        [abbr |-> <<"M", "a", "r", ".">>, placeholder |-> "_ABBR_Mar_DOT__"],
        [abbr |-> <<"A", "p", "r", ".">>, placeholder |-> "_ABBR_Apr_DOT__"],
        [abbr |-> <<"J", "u", "n", ".">>, placeholder |-> "_ABBR_Jun_DOT__"],
        [abbr |-> <<"J", "u", "l", ".">>, placeholder |-> "_ABBR_Jul_DOT__"],
        [abbr |-> <<"A", "u", "g", ".">>, placeholder |-> "_ABBR_Aug_DOT__"],
        [abbr |-> <<"S", "e", "p", ".">>, placeholder |-> "_ABBR_Sep_DOT__"],
        [abbr |-> <<"O", "c", "t", ".">>, placeholder |-> "_ABBR_Oct_DOT__"],
        [abbr |-> <<"N", "o", "v", ".">>, placeholder |-> "_ABBR_Nov_DOT__"],
        [abbr |-> <<"D", "e", "c", ".">>, placeholder |-> "_ABBR_Dec_DOT__"],
        [abbr |-> <<"R", "e", "v", ".">>, placeholder |-> "_ABBR_Rev_DOT__"],
        [abbr |-> <<"G", "e", "n", ".">>, placeholder |-> "_ABBR_Gen_DOT__"],
        [abbr |-> <<"C", "o", "l", ".">>, placeholder |-> "_ABBR_Col_DOT__"],
        [abbr |-> <<"L", "t", ".">>, placeholder |-> "_ABBR_Lt_DOT__"],
        [abbr |-> <<"S", "g", "t", ".">>, placeholder |-> "_ABBR_Sgt_DOT__"],
        [abbr |-> <<"C", "a", "p", "t", ".">>, placeholder |-> "_ABBR_Capt_DOT__"],
        [abbr |-> <<"C", "m", "d", "r", ".">>, placeholder |-> "_ABBR_Cmdr_DOT__"],
        [abbr |-> <<"A", "d", "m", ".">>, placeholder |-> "_ABBR_Adm_DOT__"],
        [abbr |-> <<"P", "h", ".", "D", ".">>, placeholder |-> "_ABBR_Ph_DOT_D_DOT__"],
        [abbr |-> <<"M", ".", "D", ".">>, placeholder |-> "_ABBR_M_DOT_D_DOT__"],
        [abbr |-> <<"B", ".", "A", ".">>, placeholder |-> "_ABBR_B_DOT_A_DOT__"],
        [abbr |-> <<"M", ".", "A", ".">>, placeholder |-> "_ABBR_M_DOT_A_DOT__"] >>,
    ru |-> <<
        [abbr |-> <<"U+0433", ".">>, placeholder |-> "_ABBR_U+0433_DOT__"],
        [abbr |-> <<"U+0433", "U+0433", ".">>, placeholder |-> "_ABBR_U+0433U+0433_DOT__"],
        [abbr |-> <<"U+0442", ".", "U+0434", ".">>, placeholder |-> "_ABBR_U+0442_DOT_U+0434_DOT__"],
        [abbr |-> <<"U+0442", ".", "U+043F", ".">>, placeholder |-> "_ABBR_U+0442_DOT_U+043F_DOT__"],
        [abbr |-> <<"U+0442", ".", "U+0435", ".">>, placeholder |-> "_ABBR_U+0442_DOT_U+0435_DOT__"],
        [abbr |-> <<"U+0434", "U+0440", ".">>, placeholder |-> "_ABBR_U+0434U+0440_DOT__"],
        [abbr |-> <<"U+043F", "U+0440", ".">>, placeholder |-> "_ABBR_U+043FU+0440_DOT__"],
        [abbr |-> <<"U+0443", "U+043B", ".">>, placeholder |-> "_ABBR_U+0443U+043B_DOT__"],
        [abbr |-> <<"U+0434", ".">>, placeholder |-> "_ABBR_U+0434_DOT__"],
        [abbr |-> <<"U+043A", "U+0432", ".">>, placeholder |-> "_ABBR_U+043AU+0432_DOT__"],
        [abbr |-> <<"U+0438", "U+043C", ".">>, placeholder |-> "_ABBR_U+0438U+043C_DOT__"],
        [abbr |-> <<"U+043F", "U+0440", "U+043E", "U+0444", ".">>, placeholder |-> "_ABBR_U+043FU+0440U+043EU+0444_DOT__"],
        [abbr |-> <<"U+0434", "U+043E", "U+0446", ".">>, placeholder |-> "_ABBR_U+0434U+043EU+0446_DOT__"],
        [abbr |-> <<"U+043A", "U+0430", "U+043D", "U+0434", ".">>, placeholder |-> "_ABBR_U+043AU+0430U+043DU+0434_DOT__"],
        [abbr |-> <<"U+0430", "U+043A", "U+0430", "U+0434", ".">>, placeholder |-> "_ABBR_U+0430U+043AU+0430U+0434_DOT__"],
        [abbr |-> <<"U+0447", "U+043B", ".">>, placeholder |-> "_ABBR_U+0447U+043B_DOT__"],
        [abbr |-> <<"U+043A", "U+043E", "U+0440", "U+0440", ".">>, placeholder |-> "_ABBR_U+043AU+043EU+0440U+0440_DOT__"],
        [abbr |-> <<"U+0440", "U+0435", "U+0434", ".">>, placeholder |-> "_ABBR_U+0440U+0435U+0434_DOT__"],
        [abbr |-> <<"U+0438", "U+0437", "U+0434", ".">>, placeholder |-> "_ABBR_U+0438U+0437U+0434_DOT__"],
        [abbr |-> <<"U+0441", "U+043C", ".">>, placeholder |-> "_ABBR_U+0441U+043C_DOT__"],
        [abbr |-> <<"U+0441", "U+0440", ".">>, placeholder |-> "_ABBR_U+0441U+0440_DOT__"],
        [abbr |-> <<"U+043D", "U+0430", "U+043F", "U+0440", ".">>, placeholder |-> "_ABBR_U+043DU+0430U+043FU+0440_DOT__"],
        [abbr |-> <<"U+043F", ".">>, placeholder |-> "_ABBR_U+043F_DOT__"],
        [abbr |-> <<"U+043F", "U+043F", ".">>, placeholder |-> "_ABBR_U+043FU+043F_DOT__"],
        [abbr |-> <<"U+0447", ".">>, placeholder |-> "_ABBR_U+0447_DOT__"],
        [abbr |-> <<"U+0441", ".">>, placeholder |-> "_ABBR_U+0441_DOT__"],
        [abbr |-> <<"U+0441", "U+0442", "U+0440", ".">>, placeholder |-> "_ABBR_U+0441U+0442U+0440_DOT__"],
        [abbr |-> <<"U+0440", "U+0438", "U+0441", ".">>, placeholder |-> "_ABBR_U+0440U+0438U+0441_DOT__"],
        [abbr |-> <<"U+0442", "U+0430", "U+0431", "U+043B", ".">>, placeholder |-> "_ABBR_U+0442U+0430U+0431U+043B_DOT__"],
        [abbr |-> <<"U+043C", "U+043B", "U+043D", ".">>, placeholder |-> "_ABBR_U+043CU+043BU+043D_DOT__"],
        [abbr |-> <<"U+043C", "U+043B", "U+0440", "U+0434", ".">>, placeholder |-> "_ABBR_U+043CU+043BU+0440U+0434_DOT__"],
        [abbr |-> <<"U+0442", "U+044B", "U+0441", ".">>, placeholder |-> "_ABBR_U+0442U+044BU+0441_DOT__"],
        [abbr |-> <<"U+0440", "U+0443", "U+0431", ".">>, placeholder |-> "_ABBR_U+0440U+0443U+0431_DOT__"],
        [abbr |-> <<"U+043A", "U+043E", "U+043F", ".">>, placeholder |-> "_ABBR_U+043AU+043EU+043F_DOT__"],
        [abbr |-> <<"U+043C", ".">>, placeholder |-> "_ABBR_U+043C_DOT__"],
        [abbr |-> <<"U+043A", "U+043C", ".">>, placeholder |-> "_ABBR_U+043AU+043C_DOT__"],
        [abbr |-> <<"U+043A", "U+0433", ".">>, placeholder |-> "_ABBR_U+043AU+0433_DOT__"],
        [abbr |-> <<"U+0433", "U+0440", ".">>, placeholder |-> "_ABBR_U+0433U+0440_DOT__"] >>,
    es |-> <<
        [abbr |-> <<"S", "r", ".">>, placeholder |-> "_ABBR_Sr_DOT__"],
        [abbr |-> <<"S", "r", "a", ".">>, placeholder |-> "_ABBR_Sra_DOT__"],
        [abbr |-> <<"S", "r", "t", "a", ".">>, placeholder |-> "_ABBR_Srta_DOT__"],
        [abbr |-> <<"D", "r", ".">>, placeholder |-> "_ABBR_Dr_DOT__"],
        [abbr |-> <<"D", "r", "a", ".">>, placeholder |-> "_ABBR_Dra_DOT__"],
        [abbr |-> <<"P", "r", "o", "f", ".">>, placeholder |-> "_ABBR_Prof_DOT__"],
        [abbr |-> <<"U", "d", ".">>, placeholder |-> "_ABBR_Ud_DOT__"],
        [abbr |-> <<"U", "d", "s", ".">>, placeholder |-> "_ABBR_Uds_DOT__"],
        [abbr |-> <<"e", "t", "c", ".">>, placeholder |-> "_ABBR_etc_DOT__"],
        [abbr |-> <<"L", "i", "c", ".">>, placeholder |-> "_ABBR_Lic_DOT__"],
        [abbr |-> <<"I", "n", "g", ".">>, placeholder |-> "_ABBR_Ing_DOT__"],
        [abbr |-> <<"A", "r", "q", ".">>, placeholder |-> "_ABBR_Arq_DOT__"],
        [abbr |-> <<"A", "b", "o", "g", ".">>, placeholder |-> "_ABBR_Abog_DOT__"],
        [abbr |-> <<"M", "t", "r", "o", ".">>, placeholder |-> "_ABBR_Mtro_DOT__"],
        [abbr |-> <<"M", "t", "r", "a", ".">>, placeholder |-> "_ABBR_Mtra_DOT__"],
        [abbr |-> <<"P", "b", "r", "o", ".">>, placeholder |-> "_ABBR_Pbro_DOT__"],
        [abbr |-> <<"M", "o", "n", "s", ".">>, placeholder |-> "_ABBR_Mons_DOT__"],
        [abbr |-> <<"G", "r", "a", "l", ".">>, placeholder |-> "_ABBR_Gral_DOT__"],
        [abbr |-> <<"C", "n", "e", "l", ".">>, placeholder |-> "_ABBR_Cnel_DOT__"],
        [abbr |-> <<"C", "a", "p", ".">>, placeholder |-> "_ABBR_Cap_DOT__"],
        [abbr |-> <<"T", "t", "e", ".">>, placeholder |-> "_ABBR_Tte_DOT__"],
        [abbr |-> <<"S", "g", "t", ".">>, placeholder |-> "_ABBR_Sgt_DOT__"],
        [abbr |-> <<"p", "U+00E1", "g", ".">>, placeholder |-> "_ABBR_pU+00E1g_DOT__"],
        [abbr |-> <<"p", "U+00E1", "g", "s", ".">>, placeholder |-> "_ABBR_pU+00E1gs_DOT__"],
        [abbr |-> <<"v", "o", "l", ".">>, placeholder |-> "_ABBR_vol_DOT__"],
        [abbr |-> <<"n", "U+00FA", "m", ".">>, placeholder |-> "_ABBR_nU+00FAm_DOT__"],
        [abbr |-> <<"t", "e", "l", ".">>, placeholder |-> "_ABBR_tel_DOT__"],
        [abbr |-> <<"f", "a", "x", ".">>, placeholder |-> "_ABBR_fax_DOT__"],
        [abbr |-> <<"a", "p", "r", "o", "x", ".">>, placeholder |-> "_ABBR_aprox_DOT__"],
        [abbr |-> <<"m", "U+00E1", "x", ".">>, placeholder |-> "_ABBR_mU+00E1x_DOT__"],
        [abbr |-> <<"m", "U+00ED", "n", ".">>, placeholder |-> "_ABBR_mU+00EDn_DOT__"],
        [abbr |-> <<"p", "r", "o", "m", ".">>, placeholder |-> "_ABBR_prom_DOT__"] >> ]
FILE_EXT_PATTERN == <<
    <<"j", "s", "o", "n">>, <<"x", "m", "l">>, <<"t", "x", "t">>, <<"m", "d">>, <<"p", "y">>,
    <<"j", "s">>, <<"t", "s">>, <<"h", "t", "m", "l">>, <<"c", "s", "s">>, <<"y", "m", "l">>,
    <<"y", "a", "m", "l">>, <<"c", "s", "v">>, <<"p", "d", "f">>, <<"d", "o", "c">>,
    <<"d", "o", "c", "x">>, <<"x", "l", "s">>, <<"x", "l", "s", "x">>, <<"m", "p", "3">>,
    <<"m", "p", "4">>, <<"w", "a", "v">>, <<"j", "p", "g">>, <<"p", "n", "g">>,
    <<"g", "i", "f">>, <<"z", "i", "p">>, <<"t", "a", "r">>, <<"g", "z">> >>
DOMAIN_PATTERN == <<
    <<"c", "o", "m">>, <<"o", "r", "g">>, <<"n", "e", "t">>, <<"r", "u">>, <<"i", "o">>,
    <<"d", "e", "v">>, <<"c", "o">>, <<"e", "d", "u">>, <<"g", "o", "v">>,
    <<"i", "n", "f", "o">>, <<"m", "e">>, <<"t", "v">>, <<"u", "k">>, <<"d", "e">>,
    <<"f", "r">>, <<"e", "s">>, <<"i", "t">>, <<"n", "l">>, <<"p", "l">>, <<"u", "a">>,
    <<"b", "y">>, <<"k", "z">> >>
conj_patterns == <<
    <<",", " ", "U+0438", " ">>, <<",", " ", "U+0430", " ">>,
    <<",", " ", "U+043D", "U+043E", " ">>,
    <<",", " ", "U+043E", "U+0434", "U+043D", "U+0430", "U+043A", "U+043E", " ">>,
    <<",", " ", "U+0445", "U+043E", "U+0442", "U+044F", " ">>, <<",", " ", "o", "r", " ">>,
    <<",", " ", "a", "n", "d", " ">>, <<",", " ", "b", "u", "t", " ">>,
    <<",", " ", "y", "e", "t", " ">>, <<",", " ", "s", "o", " ">>, <<",", " ", "y", " ">>,
    <<",", " ", "o", " ">>, <<",", " ", "p", "e", "r", "o", " ">>,
    <<",", " ", "a", "u", "n", "q", "u", "e", " ">> >>

\* F(x), with x evaluated once
Bind(x, F(_)) == CHOOSE r \in {F(v) : v \in {x}} : TRUE

\* the sequence [i \in 1..n |-> e] as the list of its elements
List(f) == f \o <<>>

Range(s) == {s[k] : k \in DOMAIN s}

UpperLetters == Range(LatinUpper) \cup CyrillicUpper
Letters == UpperLetters \cup Range(LatinLower) \cup CyrillicLower
Digits == {"0", "1", "2", "3", "4", "5", "6", "7", "8", "9"}
Whitespace == {" ", "\n", "\t"}
Placeholders ==
    {"_ELLIPSIS_", "_FEXT_", "_DOM_", "_DECIMAL_", "_NUM_", "_ACRO_", "_INIT_"}
      \cup UNION {{ABBREVIATIONS[l][k].placeholder : k \in DOMAIN ABBREVIATIONS[l]} :
                    l \in DOMAIN ABBREVIATIONS}
\* \w of the patterns: letters (accented ones included), digits, underscore
AccentedLetters == {"U+00E1", "U+00E9", "U+00ED", "U+00F3", "U+00FA", "U+00F1"}
WordChars == Letters \cup Digits \cup AccentedLetters \cup {"_"} \cup Placeholders

\* str.lower() of one character, as re.IGNORECASE compares the extensions
LowerChar(c) ==
    IF c \in Range(LatinUpper)
    THEN LatinLower[CHOOSE k \in DOMAIN LatinUpper : LatinUpper[k] = c]
    ELSE c

From(s, i) == SubSeq(s, i, Len(s))

StartsWith(s, p) == Len(p) <= Len(s) /\ SubSeq(s, 1, Len(p)) = p

\* str.strip()
RECURSIVE lstrip(_)
lstrip(s) == IF s # <<>> /\ s[1] \in Whitespace THEN lstrip(Tail(s)) ELSE s

RECURSIVE rstrip(_)
rstrip(s) ==
    IF s # <<>> /\ s[Len(s)] \in Whitespace THEN rstrip(SubSeq(s, 1, Len(s) - 1)) ELSE s

strip(s) == rstrip(lstrip(s))

\* old in s
Contains(s, old) == \E k \in 1..(Len(s) - Len(old) + 1) : StartsWith(From(s, k), old)

\* s.find(old), 0-based, for an old that occurs in s
find(s, old) ==
    (CHOOSE k \in 1..(Len(s) - Len(old) + 1) :
        /\ StartsWith(From(s, k), old)
        /\ \A j \in 1..(k - 1) : ~StartsWith(From(s, j), old)) - 1

\* str.replace(old, new): the occurrences of old, left to right, not overlapping
RECURSIVE replace(_, _, _)
replace(s, old, new) ==
    IF ~Contains(s, old) THEN s
    ELSE Bind(find(s, old), LAMBDA k :
           SubSeq(s, 1, k) \o new
             \o Bind(From(s, k + Len(old) + 1), LAMBDA rest : replace(rest, old, new)))

\* s.split(sep) for a separator sep that is not empty
RECURSIVE str_split(_, _)
str_split(s, sep) ==
    IF ~Contains(s, sep) THEN <<s>>
    ELSE Bind(find(s, sep), LAMBDA k :
           <<SubSeq(s, 1, k)>>
             \o Bind(From(s, k + Len(sep) + 1), LAMBDA rest : str_split(rest, sep)))

\* pieces[lo] \o ... \o pieces[hi]
RECURSIVE ConcatRange(_, _, _)
ConcatRange(pieces, lo, hi) ==
    IF lo > hi THEN <<>>
    ELSE IF lo = hi THEN pieces[lo]
    ELSE ConcatRange(pieces, lo, (lo + hi) \div 2)
           \o ConcatRange(pieces, (lo + hi) \div 2 + 1, hi)

\* the concatenation of a list of lists
Flatten(nested) == Bind(nested, LAMBDA pieces : ConcatRange(pieces, 1, Len(pieces)))

MinOf(S) == CHOOSE x \in S : \A y \in S : x <= y
MaxOf(S) == CHOOSE x \in S : \A y \in S : x >= y

\* [p for p in parts if p.strip()]
NonBlank(parts) == SelectSeq(parts, LAMBDA p : strip(p) # <<>>)

\* the length of the run of characters of the set cs that starts at s[i]
RECURSIVE RunLen(_, _, _)
RunLen(s, i, cs) == IF i <= Len(s) /\ s[i] \in cs THEN 1 + RunLen(s, i + 1, cs) ELSE 0

\* TextSplitter.__init__: the abbreviation list of the language, by its code
\* and then by the part of the code before the dash ("es-latam" uses "es")
abbr_patterns(lang_code) ==
    IF lang_code \in DOMAIN ABBREVIATIONS THEN ABBREVIATIONS[lang_code]
    ELSE IF BeforeDash(lang_code) \in DOMAIN ABBREVIATIONS
         THEN ABBREVIATIONS[BeforeDash(lang_code)]
    ELSE <<>>

\* ELLIPSIS_PATTERN.sub('_ELLIPSIS_', ...): a run of two or more dots, or one
\* ellipsis character, becomes one placeholder
protect_ellipsis(s) ==
    Flatten(List([i \in DOMAIN s |->
        IF s[i] = HORIZONTAL_ELLIPSIS THEN <<"_ELLIPSIS_">>
        ELSE IF s[i] = "." /\ i > 1 /\ s[i - 1] = "." THEN <<>>
        ELSE IF s[i] = "." /\ i < Len(s) /\ s[i + 1] = "." THEN <<"_ELLIPSIS_">>
        ELSE <<s[i]>>]))

\* (\w+)\.(ext1|ext2|...)\b with re.IGNORECASE can match at the dot s[i]
DotExtAt(s, i, e) ==
    /\ i >= 2 /\ i + Len(e) <= Len(s)
    /\ s[i] = "."
    /\ s[i - 1] \in WordChars
    /\ \A k \in 1..Len(e) : LowerChar(s[i + k]) = e[k]
    /\ (i + Len(e) = Len(s) \/ s[i + Len(e) + 1] \notin WordChars)

\* ... and does match there in the left-to-right search of sub: the word
\* before the dot is not the extension that the match before consumed
RECURSIVE WordDotMatch(_, _, _)
WordDotMatch(s, i, exts) ==
    /\ \E e \in Range(exts) : DotExtAt(s, i, e)
    /\ ~\E e \in Range(exts) :
           /\ DotExtAt(s, i - Len(e) - 1, e)
           /\ WordDotMatch(s, i - Len(e) - 1, exts)

\* FILE_EXT_PATTERN.sub / DOMAIN_PATTERN.sub: the dot of every match becomes
\* the placeholder
protect_word_dot(s, exts, placeholder) ==
    List([i \in DOMAIN s |->
            IF s[i] = "." /\ WordDotMatch(s, i, exts) THEN placeholder ELSE s[i]])

\* (\d+)\.(\d+) matches at the dot s[i] in the left-to-right search of sub:
\* the digits before the dot are not those that the match before consumed
RECURSIVE DecimalMatch(_, _)
DecimalMatch(s, i) ==
    /\ i >= 2 /\ i + 1 <= Len(s)
    /\ s[i] = "." /\ s[i - 1] \in Digits /\ s[i + 1] \in Digits
    /\ LET before == {k \in 1..(i - 1) : s[k] \notin Digits}
       IN  before = {} \/ ~DecimalMatch(s, MaxOf(before))

\* DECIMAL_PATTERN.sub(r'\1_DECIMAL_\2', ...)
protect_decimal(s) ==
    List([i \in DOMAIN s |-> IF s[i] = "." /\ DecimalMatch(s, i) THEN "_DECIMAL_" ELSE s[i]])

\* NUMBERED_LIST_PATTERN.sub: one to three digits and a dot, at the start of
\* the text or after a whitespace character
protect_numbered(s) ==
    List([i \in DOMAIN s |->
            IF /\ s[i] = "."
               /\ \E n \in 1..3 :
                     /\ n <= i - 1
                     /\ \A k \in 1..n : s[i - k] \in Digits
                     /\ (i - n = 1 \/ s[i - n - 1] \in Whitespace)
            THEN "_NUM_" ELSE s[i]])

\* \b([A-Z...]\.){2,} matches n pairs of an uppercase letter and a dot from
\* s[start] on
AcronymAt(s, start, n) ==
    /\ start + 2 * n - 1 <= Len(s)
    /\ (start = 1 \/ s[start - 1] \notin WordChars)
    /\ \A k \in 0..(n - 1) : s[start + 2 * k] \in UpperLetters /\ s[start + 2 * k + 1] = "."

\* ACRONYM_PATTERN.sub(protect_acronym, ...): every dot of a match becomes
\* the placeholder
protect_acronym(s) ==
    List([i \in DOMAIN s |->
            IF /\ s[i] = "."
               /\ \E start \in 1..(i - 1), n \in 2..(Len(s) \div 2) :
                     /\ (i - start) % 2 = 1 /\ i <= start + 2 * n - 1
                     /\ AcronymAt(s, start, n)
            THEN "_ACRO_" ELSE s[i]])

\* SINGLE_LETTER_PATTERN matches the uppercase letter s[i] and the dot after it
InitialAt(s, i) ==
    /\ i >= 1 /\ i + 1 <= Len(s)
    /\ s[i] \in UpperLetters
    /\ (i = 1 \/ s[i - 1] \notin Letters)
    /\ s[i + 1] = "."
    /\ \/ i + 2 > Len(s)
       \/ s[i + 2] \notin Letters
       \/ s[i + 2] \in UpperLetters /\ i + 3 <= Len(s) /\ s[i + 3] = "."

\* SINGLE_LETTER_PATTERN.sub(r'\1_INIT_', ...)
protect_initials(s) ==
    List([i \in DOMAIN s |-> IF s[i] = "." /\ InitialAt(s, i - 1) THEN "_INIT_" ELSE s[i]])

\* for abbr, placeholder in self._abbr_patterns:
\*     protected = protected.replace(abbr, placeholder)
RECURSIVE protect_each(_, _)
protect_each(s, patterns) ==
    IF patterns = <<>> THEN s
    ELSE Bind(replace(s, patterns[1].abbr, <<patterns[1].placeholder>>),
              LAMBDA replaced : protect_each(replaced, Tail(patterns)))

\* An abbreviation that does not occur in the text is replaced nowhere, and
\* no replacement makes a new occurrence: the loop runs over the others.
protect_known(s, patterns) ==
    Bind(SelectSeq(patterns, LAMBDA a : Contains(s, a.abbr)),
         LAMBDA occurring : protect_each(s, occurring))

\* TextSplitter._protect_abbreviations
protect_abbreviations(text, lang_code) ==
    LET file_ext(s) == protect_word_dot(s, FILE_EXT_PATTERN, "_FEXT_")
        domain(s) == protect_word_dot(s, DOMAIN_PATTERN, "_DOM_")
        known(s) == protect_known(s, abbr_patterns(lang_code))
    IN  Bind(Bind(Bind(Bind(Bind(Bind(Bind(Bind(text,
            protect_ellipsis), file_ext), domain), protect_decimal), protect_numbered),
            protect_acronym), protect_initials), known)

\* for abbr, placeholder in self._abbr_patterns:
\*     restored = restored.replace(placeholder, abbr)
RECURSIVE restore_each(_, _)
restore_each(s, patterns) ==
    IF patterns = <<>> THEN s
    ELSE Bind(replace(s, <<patterns[1].placeholder>>, patterns[1].abbr),
              LAMBDA replaced : restore_each(replaced, Tail(patterns)))

restore_known(s, patterns) ==
    Bind(SelectSeq(patterns, LAMBDA a : a.placeholder \in Range(s)),
         LAMBDA occurring : restore_each(s, occurring))

\* the ellipsis placeholder is always restored as three dots
restore_abbreviations_ellipsis(s) == replace(s, <<"_ELLIPSIS_">>, <<".", ".", ".">>)

\* TextSplitter._restore_abbreviations: the abbreviations, then '_INIT_',
\* '_ACRO_', '_NUM_', '_DECIMAL_', '_DOM_' and '_FEXT_' as a dot, then the
\* ellipsis
restore_abbreviations(text, lang_code) ==
    LET known(s) == restore_known(s, abbr_patterns(lang_code))
        dot(s) == List([i \in DOMAIN s |->
                          IF s[i] \in {"_INIT_", "_ACRO_", "_NUM_", "_DECIMAL_", "_DOM_",
                                       "_FEXT_"}
                          THEN "." ELSE s[i]])
    IN  Bind(Bind(Bind(text, known), dot), restore_abbreviations_ellipsis)

\* re.sub(r"\s+", " ", text)
collapse_whitespace(s) ==
    Flatten(List([i \in DOMAIN s |->
        IF s[i] \notin Whitespace THEN <<s[i]>>
        ELSE IF i > 1 /\ s[i - 1] \in Whitespace THEN <<>>
        ELSE <<" ">>]))

\* TextSplitter._clean_text
clean_text(text) == Bind(collapse_whitespace(text), strip)

\* re.split(r'\n\s*(?=[dashes]\s)', text) or re.split(r'\n\s*\n', part) cuts
\* at the newline s[i]: a dash and a whitespace character follow the
\* whitespace run that begins there, or the run holds a second newline
DialogueBreakAt(s, i) ==
    /\ s[i] = "\n"
    /\ LET j == i + RunLen(s, i, Whitespace) - 1
       IN  \/ /\ j + 2 <= Len(s)
              /\ s[j + 1] \in {EM_DASH, EN_DASH, "-"}
              /\ s[j + 2] \in Whitespace
           \/ \E k \in (i + 1)..j : s[k] = "\n"

\* the pieces of the two re.split calls of _split_dialogues
RECURSIVE dialogue_parts(_)
dialogue_parts(s) ==
    Bind({i \in DOMAIN s : DialogueBreakAt(s, i)}, LAMBDA breaks :
      IF breaks = {} THEN <<s>>
      ELSE Bind(MinOf(breaks), LAMBDA first :
             <<SubSeq(s, 1, first - 1)>>
               \o Bind(From(s, first + RunLen(s, first, Whitespace)), dialogue_parts)))

\* TextSplitter._split_dialogues
split_dialogues(text) ==
    Bind(NonBlank(dialogue_parts(text)), LAMBDA parts :
      List([k \in DOMAIN parts |-> strip(parts[k])]))

\* ([.!?]+)\s+(?=[A-Z...]) matches from s[i] on: a run of sentence
\* punctuation begins there, whitespace and an uppercase letter follow it
BoundaryAt(s, i) ==
    /\ s[i] \in {".", "!", "?"}
    /\ (i = 1 \/ s[i - 1] \notin {".", "!", "?"})
    /\ LET r == RunLen(s, i, {".", "!", "?"})
           w == RunLen(s, i + r, Whitespace)
       IN  w >= 1 /\ i + r + w <= Len(s) /\ s[i + r + w] \in UpperLetters

\* re.split(r'([.!?]+)\s+(?=[A-Z...])', protected) and the loop that joins
\* each piece with the punctuation captured after it
RECURSIVE regex_sentences(_)
regex_sentences(s) ==
    Bind({i \in DOMAIN s : BoundaryAt(s, i)}, LAMBDA boundaries :
      IF boundaries = {} THEN (IF strip(s) # <<>> THEN <<s>> ELSE <<>>)
      ELSE Bind(MinOf(boundaries) + RunLen(s, MinOf(boundaries), {".", "!", "?"}),
             LAMBDA after :
               <<SubSeq(s, 1, after - 1)>>
                 \o Bind(From(s, after + RunLen(s, after, Whitespace)), regex_sentences)))

\* TextSplitter._split_regex
split_regex(text, lang_code) ==
    Bind(Bind(protect_abbreviations(text, lang_code), regex_sentences), LAMBDA sentences :
      List([k \in DOMAIN sentences |-> restore_abbreviations(sentences[k], lang_code)]))

\* parts = [p.strip() + ';' for p in parts[:-1]] + [parts[-1].strip()]
\* parts = [p for p in parts if p.strip() and p != ';']
semicolon_parts(sentence) ==
    Bind(str_split(sentence, <<";">>), LAMBDA parts :
      SelectSeq([k \in DOMAIN parts |->
                   IF k < Len(parts) THEN strip(parts[k]) \o <<";">> ELSE strip(parts[k])],
                LAMBDA p : strip(p) # <<>> /\ p # <<";">>))

\* parts = [parts[0].strip()] + [em-dash + ' ' + p.strip() for p in parts[1:]]
\* parts = [p for p in parts if p.strip() and p != em-dash]
em_dash_parts(sentence) ==
    Bind(str_split(sentence, <<" ", EM_DASH, " ">>), LAMBDA parts :
      SelectSeq([k \in DOMAIN parts |->
                   IF k = 1 THEN strip(parts[k]) ELSE <<EM_DASH, " ">> \o strip(parts[k])],
                LAMBDA p : strip(p) # <<>> /\ p # <<EM_DASH>>))

\* the split after the comma of the first conjunction pattern, in the order
\* of conj_patterns, that leaves two parts; <<>> when there is none
conjunction_parts(sentence) ==
    LET before(k) == strip(SubSeq(sentence, 1, find(sentence, conj_patterns[k]) + 1))
        after(k) == strip(From(sentence, find(sentence, conj_patterns[k]) + 3))
    IN  Bind({k \in DOMAIN conj_patterns :
                /\ Contains(sentence, conj_patterns[k])
                /\ before(k) # <<>> /\ after(k) # <<>>}, LAMBDA usable :
          IF usable = {} THEN <<>> ELSE <<before(MinOf(usable)), after(MinOf(usable))>>)

\* the split after the comma closest to the middle, when that comma lies
\* strictly between 20% and 80% of the sentence; <<>> when there is none.
\* len * 0.2 < best_comma < len * 0.8 is compared in fifths, which agrees
\* with the floating-point comparison for every length
comma_parts(sentence) ==
    LET mid == Len(sentence) \div 2
        commas == {i \in 0..(Len(sentence) - 1) : sentence[i + 1] = ","}
        closest == CHOOSE x \in commas :
                      \A y \in commas : \/ Abs(x - mid) < Abs(y - mid)
                                        \/ Abs(x - mid) = Abs(y - mid) /\ x <= y
    IN  IF commas = {} THEN <<>>
        ELSE Bind(closest, LAMBDA best_comma :
               IF /\ Len(sentence) < 5 * best_comma /\ 5 * best_comma < 4 * Len(sentence)
                  /\ strip(SubSeq(sentence, 1, best_comma + 1)) # <<>>
                  /\ strip(From(sentence, best_comma + 2)) # <<>>
               THEN <<strip(SubSeq(sentence, 1, best_comma + 1)),
                      strip(From(sentence, best_comma + 2))>>
               ELSE <<>>)

\* the parts that _split_long_sentence splits a long sentence into, by the
\* first of its four rules that applies; <<>> when none does
long_sentence_parts(sentence) ==
    Bind(IF Contains(sentence, <<";">>) THEN semicolon_parts(sentence) ELSE <<>>,
         LAMBDA by_semicolon :
      IF by_semicolon # <<>> THEN by_semicolon
      ELSE Bind(IF Contains(sentence, <<" ", EM_DASH, " ">>)
                THEN em_dash_parts(sentence) ELSE <<>>, LAMBDA by_dash :
             IF by_dash # <<>> THEN by_dash
             ELSE Bind(conjunction_parts(sentence), LAMBDA by_conjunction :
                    IF by_conjunction # <<>> THEN by_conjunction
                    ELSE comma_parts(sentence))))

\* TextSplitter._split_long_sentence; every returned part carries the depth
\* of the call that returned it
RECURSIVE split_long_sentence(_, _, _)
split_long_sentence(sentence, max_sentence_length, depth) ==
    IF Len(sentence) <= max_sentence_length \/ depth > 10
    THEN <<[sentence |-> sentence, depth |-> depth]>>
    ELSE Bind(long_sentence_parts(sentence), LAMBDA parts :
           IF parts = <<>> THEN <<[sentence |-> sentence, depth |-> depth]>>
           ELSE Flatten(List([k \in DOMAIN parts |->
                           Bind(parts[k], LAMBDA part :
                             split_long_sentence(part, max_sentence_length, depth + 1))])))

\* TextSplitter._split_long_sentences
split_long_sentences(sentences, max_sentence_length) ==
    Flatten(List([k \in DOMAIN sentences |->
               IF Len(sentences[k]) <= max_sentence_length
               THEN <<[sentence |-> sentences[k], depth |-> 0]>>
               ELSE split_long_sentence(sentences[k], max_sentence_length, 0)]))

\* the sentences of one paragraph of split
paragraph_sentences(paragraph, lang_code) ==
    Bind(clean_text(paragraph), LAMBDA para :
      IF para = <<>> THEN <<>> ELSE split_regex(para, lang_code))

\* TextSplitter.split, each sentence with the depth of the call of
\* _split_long_sentence that returned it
split(text, lang_code, max_sentence_length) ==
    IF text = <<>> THEN <<>>
    ELSE Bind(split_dialogues(text), LAMBDA paragraphs :
      Bind(Flatten(List([k \in DOMAIN paragraphs |->
                      paragraph_sentences(paragraphs[k], lang_code)])),
           LAMBDA all_sentences :
        Bind(NonBlank(all_sentences), LAMBDA kept :
          Bind(List([k \in DOMAIN kept |-> strip(kept[k])]), LAMBDA result :
            IF max_sentence_length > 0
            THEN split_long_sentences(result, max_sentence_length)
            ELSE List([k \in DOMAIN result |-> [sentence |-> result[k], depth |-> 0]])))))

\* ---------------------------------------------------------------------
\* SpecSplitter: a TextSplitter is constructed for a language and a
\* max_sentence_length, and split is called on a text.

MaxTextLen == 4

SplitterAlphabet == {"A", "a", "5", ".", " ", ";", ",", HORIZONTAL_ELLIPSIS}

\* 'Dr. Watson arrived. He met Mr. Holmes.'
SampleText1 == <<
    "D", "r", ".", " ", "W", "a", "t", "s", "o", "n", " ", "a", "r", "r", "i", "v", "e", "d",
    ".", " ", "H", "e", " ", "m", "e", "t", " ", "M", "r", ".", " ", "H", "o", "l", "m", "e",
    "s", "." >>
\* '\u0410. \u0421. \u041f\u0443\u0448\u043a\u0438\u043d \u043d\u0430\u043f\u0438\u0441\u0430\u043b \u0441\u0442\u0438\u0445\u0438.'
SampleText2 == <<
    "U+0410", ".", " ", "U+0421", ".", " ", "U+041F", "U+0443", "U+0448", "U+043A", "U+0438",
    "U+043D", " ", "U+043D", "U+0430", "U+043F", "U+0438", "U+0441", "U+0430", "U+043B", " ",
    "U+0441", "U+0442", "U+0438", "U+0445", "U+0438", "." >>
\* 'Wait... What happened?'
SampleText3 == <<
    "W", "a", "i", "t", ".", ".", ".", " ", "W", "h", "a", "t", " ", "h", "a", "p", "p", "e",
    "n", "e", "d", "?" >>
\* 'He is 25. She is 30.'
SampleText4 == <<
    "H", "e", " ", "i", "s", " ", "2", "5", ".", " ", "S", "h", "e", " ", "i", "s", " ", "3",
    "0", "." >>
\* 'Hello!\n- How are you?'
SampleText5 == <<
    "H", "e", "l", "l", "o", "!", "\n", "-", " ", "H", "o", "w", " ", "a", "r", "e", " ", "y",
    "o", "u", "?" >>
\* 'See data.csv, v2.0 at a.com; then rest \u2014 or go, but stop'
SampleText6 == <<
    "S", "e", "e", " ", "d", "a", "t", "a", ".", "c", "s", "v", ",", " ", "v", "2", ".", "0",
    " ", "a", "t", " ", "a", ".", "c", "o", "m", ";", " ", "t", "h", "e", "n", " ", "r", "e",
    "s", "t", " ", "U+2014", " ", "o", "r", " ", "g", "o", ",", " ", "b", "u", "t", " ", "s",
    "t", "o", "p" >>

\* text, language, max_sentence_length
SplitterInputs ==
    {[text |-> text, language |-> "en", max_sentence_length |-> max_sentence_length] :
        text \in SeqsUpTo(SplitterAlphabet, MaxTextLen), max_sentence_length \in {0, 2}}
      \cup {[text |-> SampleText1, language |-> "en", max_sentence_length |-> 95],
            [text |-> SampleText2, language |-> "ru", max_sentence_length |-> 95],
            [text |-> SampleText3, language |-> "en-GB", max_sentence_length |-> 95],
            [text |-> SampleText4, language |-> "en", max_sentence_length |-> 95],
            [text |-> SampleText5, language |-> "es-latam", max_sentence_length |-> 95],
            [text |-> SampleText6, language |-> "en", max_sentence_length |-> 12],
            [text |-> SampleText1, language |-> "xx", max_sentence_length |-> 95]}

InitSplitter ==
    /\ \E input \in SplitterInputs :
          fn = [pc |-> "called", name |-> "TextSplitter", text |-> input.text,
                language |-> input.language,
                max_sentence_length |-> input.max_sentence_length]
    /\ pipe = [pc |-> "idle"]
    /\ IdleOthers

\* TextSplitter.__init__
NewTextSplitter ==
    /\ fn.pc = "called"
    /\ fn.name = "TextSplitter"
    /\ fn' = IF get_language(fn.language) = NoLanguage
             THEN [fn EXCEPT !.pc = "raised"] @@ [error |-> "UnsupportedLanguageError"]
             ELSE [fn EXCEPT !.pc = "constructed"]
                    @@ [lang_code |-> get_language(fn.language).code]
    /\ UNCHANGED <<limVars, thrVars, adVars, job, asm, pipe>>

\* TextSplitter.split
CallSplit ==
    /\ fn.pc = "constructed"
    /\ fn.name = "TextSplitter"
    /\ LET parts == split(fn.text, fn.lang_code, fn.max_sentence_length)
       IN  fn' = [fn EXCEPT !.pc = "done"]
                   @@ [result |-> [k \in DOMAIN parts |-> parts[k].sentence],
                       depth |-> [k \in DOMAIN parts |-> parts[k].depth]]
    /\ UNCHANGED <<limVars, thrVars, adVars, job, asm, pipe>>

NextSplitter == NewTextSplitter \/ CallSplit

SpecSplitter == InitSplitter /\ [][NextSplitter]_vars

SplitDone == fn.pc = "done" /\ fn.name = "TextSplitter"

\* " ".join(sentences)
RECURSIVE JoinWithSpaces(_)
JoinWithSpaces(sentences) ==
    IF sentences = <<>> THEN <<>>
    ELSE IF Len(sentences) = 1 THEN sentences[1]
    ELSE sentences[1] \o <<" ">> \o JoinWithSpaces(Tail(sentences))

\* whitespace runs collapsed to one space, ends trimmed
WhitespaceNormalized(text) == strip(collapse_whitespace(text))

\* C15: joining the sentences returned by split with single spaces gives
\* the input text after whitespace normalization.
SplitRoundTrip ==
    SplitDone => JoinWithSpaces(fn.result) = WhitespaceNormalized(fn.text)

HasSemicolon(sentence) == ";" \in Range(sentence)

HasSpacedEmDash(sentence) == Contains(sentence, <<" ", EM_DASH, " ">>)

\* a comma at an index, counted from 0 as the code counts, within [0.2L, 0.8L]
HasMiddleComma(sentence, L) ==
    \E i \in 0..(Len(sentence) - 1) : sentence[i + 1] = "," /\ L <= 5 * i /\ 5 * i <= 4 * L

\* C16: with max_sentence_length L > 0 every sentence returned by split has
\* length <= L or contains no semicolon, no spaced em-dash and no comma
\* within [0.2L, 0.8L], and no call of _split_long_sentence is deeper than 10.
SplitLengthCap ==
    (SplitDone /\ fn.max_sentence_length > 0) =>
        \A k \in DOMAIN fn.result :
            /\ \/ Len(fn.result[k]) <= fn.max_sentence_length
               \/ /\ ~HasSemicolon(fn.result[k])
                  /\ ~HasSpacedEmDash(fn.result[k])
                  /\ ~HasMiddleComma(fn.result[k], fn.max_sentence_length)
            /\ fn.depth[k] <= 10

\* the dot t[i] belongs to an ellipsis: another dot is next to it
InEllipsis(t, i) ==
    t[i] = "." /\ ((i > 1 /\ t[i - 1] = ".") \/ (i < Len(t) /\ t[i + 1] = "."))

\* the dot t[i] closes a single uppercase letter that no letter precedes: an
\* initial, or the last letter of an acronym run
ClosesInitial(t, i) ==
    /\ t[i] = "." /\ i > 1 /\ t[i - 1] \in UpperLetters
    /\ (i = 2 \/ t[i - 2] \notin Letters)

\* t[i] lies in a token of the language's abbreviation list
InAbbreviation(t, i, lang_code) ==
    \E k \in DOMAIN abbr_patterns(lang_code) :
        LET abbr == abbr_patterns(lang_code)[k].abbr
        IN  \E start \in 1..i :
              /\ i <= start + Len(abbr) - 1
              /\ start + Len(abbr) - 1 <= Len(t)
              /\ SubSeq(t, start, start + Len(abbr) - 1) = abbr
              /\ (start = 1 \/ t[start - 1] \notin Letters)

\* the dot t[i] closes a numbered-list marker at the start of the line
ClosesListMarker(t, i) ==
    /\ t[i] = "." /\ i > 1
    /\ \A j \in 1..(i - 1) : t[j] \in Digits

\* t[i] is a '.', '!' or '?' followed by whitespace and an uppercase letter
\* that is not part of a protected token
EndsSentence(t, i, lang_code) ==
    /\ t[i] \in {".", "!", "?"}
    /\ i + 2 <= Len(t)
    /\ t[i + 1] \in Whitespace
    /\ t[i + 2] \in UpperLetters
    /\ ~InEllipsis(t, i)
    /\ ~ClosesInitial(t, i)
    /\ ~InAbbreviation(t, i, lang_code)
    /\ ~ClosesListMarker(t, i)

\* the sentences of a one-paragraph text whose boundaries are the positions
\* of EndsSentence
BoundedSentences(t, lang_code) ==
    IF t = <<>> THEN <<>>
    ELSE LET ends == {i \in DOMAIN t : EndsSentence(t, i, lang_code)} \cup {Len(t)}
             nth(k) == CHOOSE e \in ends : Cardinality({x \in ends : x < e}) = k - 1
         IN  List([k \in 1..Cardinality(ends) |->
                     strip(SubSeq(t, IF k = 1 THEN 1 ELSE nth(k - 1) + 1, nth(k)))])

\* an ellipsis character or a run of dots written as three dots
EllipsisAsDots(s) == restore_abbreviations_ellipsis(protect_ellipsis(s))

\* split returned the sentences of the regular-expression stage unchanged
NoLongSplit == \A k \in DOMAIN fn.depth : fn.depth[k] = 0

\* C17: split places no sentence boundary after an abbreviation of the
\* language, an initial, an acronym run or an ellipsis, and places one at
\* every '.', '!' or '?' that is followed by whitespace and an uppercase
\* letter and is not part of such a token; 'Dr. Watson arrived. He met Mr.
\* Holmes.' (en) gives two sentences and the Russian example gives one.
SplitBoundaries ==
    (SplitDone /\ NoLongSplit) =>
        /\ "\n" \notin Range(fn.text) =>
             LET expected == BoundedSentences(WhitespaceNormalized(fn.text), fn.lang_code)
             IN  fn.result = [k \in DOMAIN expected |-> EllipsisAsDots(expected[k])]
        /\ (fn.text = SampleText1 /\ fn.lang_code = "en") => Len(fn.result) = 2
        /\ (fn.text = SampleText2 /\ fn.lang_code = "ru") => Len(fn.result) = 1

\* ---------------------------------------------------------------------
\* SpecKaraoke: ASSGenerator.generate_karaoke_line writes one karaoke
\* event for a text, a start time and a duration.
\* ---------------------------------------------------------------------

\* the two characters backslash N, an ASS line break
LINE_BREAK == "\\N"

MaxKaraokeLen == 4
MaxDurationMs == 30

KaraokeAlphabet == {"a", " ", LINE_BREAK}
KaraokeDurations == (0..MaxDurationMs) \cup {1000}
KaraokeStarts == {0, 3661500}

\* ms_to_ass_time: H:MM:SS.cc
ms_to_ass_time(ms) ==
    [hours |-> ms \div 3600000,
     minutes |-> (ms % 3600000) \div 60000,
     seconds |-> (ms % 60000) \div 1000,
     centiseconds |-> (ms % 1000) \div 10]

\* str.split() without arguments: the words between runs of whitespace
RECURSIVE words_of(_)
words_of(segment) ==
    LET t == lstrip(segment)
        spaces == {j \in DOMAIN t : t[j] \in Whitespace}
        n == IF spaces = {} THEN Len(t) ELSE MinOf(spaces) - 1
    IN  IF t = <<>> THEN <<>>
        ELSE <<SubSeq(t, 1, n)>> \o words_of(From(t, n + 1))

\* total_chars: the characters of the segments other than the line breaks,
\* the whitespace between the words included; 1 when there are none
total_chars(text) ==
    LET n == Cardinality({i \in DOMAIN text : text[i] # LINE_BREAK})
    IN  IF n = 0 THEN 1 ELSE n

\* int((len(word) / total_chars) * (duration_ms / 10))
word_duration_cs(word, total, duration_ms) == (Len(word) * duration_ms) \div (10 * total)

\* karaoke_parts: a \k tag with its word for every word, a line break for
\* every '\N' segment
karaoke_parts(text, duration_ms) ==
    LET segments == str_split(text, <<LINE_BREAK>>)
        tagged(segment) ==
            LET ws == words_of(segment)
            IN  [k \in DOMAIN ws |->
                   [tag |-> "k", k |-> word_duration_cs(ws[k], total_chars(text), duration_ms),
                    word |-> ws[k]]]
    IN  Flatten(List([k \in DOMAIN segments |->
            IF k < Len(segments)
            THEN tagged(segments[k]) \o <<[tag |-> "N", k |-> 0, word |-> <<>>]>>
            ELSE tagged(segments[k])]))

InitKaraoke ==
    /\ \E text \in SeqsUpTo(KaraokeAlphabet, MaxKaraokeLen), start_ms \in KaraokeStarts,
          duration_ms \in KaraokeDurations :
          fn = [pc |-> "called", name |-> "generate_karaoke_line", text |-> text,
                start_ms |-> start_ms, duration_ms |-> duration_ms]
    /\ pipe = [pc |-> "idle"]
    /\ IdleOthers

\* ASSGenerator.generate_karaoke_line
GenerateKaraokeLine ==
    /\ fn.pc = "called"
    /\ fn.name = "generate_karaoke_line"
    /\ fn' = [fn EXCEPT !.pc = "done"]
               @@ [start |-> ms_to_ass_time(fn.start_ms),
                   end |-> ms_to_ass_time(fn.start_ms + fn.duration_ms),
                   parts |-> karaoke_parts(fn.text, fn.duration_ms)]
    /\ UNCHANGED <<limVars, thrVars, adVars, job, asm, pipe>>

NextKaraoke == GenerateKaraokeLine

SpecKaraoke == InitKaraoke /\ [][NextKaraoke]_vars

KaraokeDone == fn.pc = "done" /\ fn.name = "generate_karaoke_line"

\* the \k tags of an event, in order
KaraokeTags(parts) == SelectSeq(parts, LAMBDA p : p.tag = "k")

\* C18: in a karaoke event the \k durations of the words sum to the
\* duration of the event in whole centiseconds, and each is the share of
\* that duration its word's characters have in the characters of all the
\* words, within one centisecond.
KaraokeDurationsSum ==
    (KaraokeDone /\ KaraokeTags(fn.parts) # <<>>) =>
        LET tags == KaraokeTags(fn.parts)
            ks == [i \in DOMAIN tags |-> tags[i].k]
            lens == [i \in DOMAIN tags |-> Len(tags[i].word)]
            event_cs == fn.duration_ms \div 10
        IN  /\ SumSeq(ks, Len(ks)) = event_cs
            /\ \A i \in DOMAIN tags :
                  Abs(ks[i] * SumSeq(lens, Len(lens)) - lens[i] * event_cs)
                      < SumSeq(lens, Len(lens))

\* ---------------------------------------------------------------------
\* SpecTTS: two TTSEngine instances are constructed and synthesize is
\* called on each; the path of the audio file is chosen by the call.
\* ---------------------------------------------------------------------

MaxTTSTextLen == 2

\* hashlib.md5(text.encode('utf-8')).hexdigest()[:12] of the strings the
\* specification hashes
MD5_12 ==
    <<"e", "n">> :> "9cfefed8fb94" @@
    <<"r", "u">> :> "89484b14b36a" @@
    <<"a", "e", "n">> :> "c1b4af7488c9" @@
    <<"a", "r", "u">> :> "e95f77c464f3" @@
    <<"b", "e", "n">> :> "7fe4771c008a" @@
    <<"b", "r", "u">> :> "f9dd4ecba5e2" @@
    <<"a", "a", "e", "n">> :> "53bc744d98c6" @@
    <<"a", "a", "r", "u">> :> "e492b5418a7e" @@
    <<"a", "b", "e", "n">> :> "32a61f46f958" @@
    <<"a", "b", "r", "u">> :> "1ce213941caf" @@
    <<"b", "a", "e", "n">> :> "309960b1836e" @@
    <<"b", "a", "r", "u">> :> "5ef035d11d74" @@
    <<"b", "b", "e", "n">> :> "2a277ddd8b72" @@
    <<"b", "b", "r", "u">> :> "176970d33922" @@
    <<"a", "a", "a", "e", "n">> :> "5a47ea3e71ee" @@
    <<"a", "a", "a", "r", "u">> :> "e1c0de4c63f9" @@
    <<"a", "a", "b", "e", "n">> :> "746294552b94" @@
    <<"a", "a", "b", "r", "u">> :> "6dfe51ef6d9d" @@
    <<"a", "b", "a", "e", "n">> :> "5148e6d68974" @@
    <<"a", "b", "a", "r", "u">> :> "1f9234db1910" @@
    <<"a", "b", "b", "e", "n">> :> "536f58982b4b" @@
    <<"a", "b", "b", "r", "u">> :> "4c558467ce08" @@
    <<"b", "a", "a", "e", "n">> :> "78db89f342ec" @@
    <<"b", "a", "a", "r", "u">> :> "a27236329dc5" @@
    <<"b", "a", "b", "e", "n">> :> "6626f64f27eb" @@
    <<"b", "a", "b", "r", "u">> :> "83781bf4ed62" @@
    <<"b", "b", "a", "e", "n">> :> "bb28031e9371" @@
    <<"b", "b", "a", "r", "u">> :> "806cc944b91f" @@
    <<"b", "b", "b", "e", "n">> :> "217d53902ac3" @@
    <<"b", "b", "b", "r", "u">> :> "291c21385dde"

\* deterministic_hash
deterministic_hash(text) == MD5_12[text]

DEFAULT_TEMP_DIR == ".temp_audio"

\* the providers _create_tts knows
KnownProviders == {"gtts", "pyttsx3", "google_cloud"}

TTSProviders == {"gtts", "google_cloud", "openai"}
TTSLanguages == {<<"e", "n">>, <<"r", "u">>}
TTSTexts == SeqsUpTo({"a", "b"}, MaxTTSTextLen)
TTSOutputPaths == {None, <<"out.mp3">>}

TTSCalls ==
    [pc : {"called"}, provider : TTSProviders, temp_dir : {DEFAULT_TEMP_DIR},
     text : TTSTexts, language : TTSLanguages, output_path : TTSOutputPaths]

InitTTS ==
    /\ \E first \in TTSCalls, second \in TTSCalls :
          fn = [pc |-> "running", name |-> "TTSEngine", calls |-> <<first, second>>]
    /\ pipe = [pc |-> "idle"]
    /\ IdleOthers

\* TTSEngine.__init__ and _create_tts
NewTTSEngine(i) ==
    /\ fn.name = "TTSEngine"
    /\ fn.calls[i].pc = "called"
    /\ fn' = [fn EXCEPT !.calls[i] =
                IF @.provider \in KnownProviders
                THEN [@ EXCEPT !.pc = "constructed"]
                ELSE [@ EXCEPT !.pc = "raised"] @@ [error |-> "ValueError"]]
    /\ UNCHANGED <<limVars, thrVars, adVars, job, asm, pipe>>

\* str(self.temp_dir / f"tts_{text_hash}.mp3")
tts_path(temp_dir, text, language) ==
    <<temp_dir, "/", "tts_", deterministic_hash(text \o language), ".mp3">>

\* TTSEngine.synthesize: the provider writes the file and reports success or
\* failure
Synthesize(i) ==
    /\ fn.name = "TTSEngine"
    /\ fn.calls[i].pc = "constructed"
    /\ \E success \in BOOLEAN :
          LET c == fn.calls[i]
              output_path == IF c.output_path = None
                             THEN tts_path(c.temp_dir, c.text, c.language)
                             ELSE c.output_path
          IN  fn' = [fn EXCEPT !.calls[i] =
                       IF success
                       THEN [c EXCEPT !.pc = "returned"] @@ [result |-> output_path]
                       ELSE [c EXCEPT !.pc = "raised"]
                              @@ [error |-> "RuntimeError", written |-> output_path]]
    /\ UNCHANGED <<limVars, thrVars, adVars, job, asm, pipe>>

NextTTS == \E i \in {1, 2} : NewTTSEngine(i) \/ Synthesize(i)

SpecTTS == InitTTS /\ [][NextTTS]_vars

\* call i returned a path that synthesize chose itself
ChosePath(i) ==
    /\ fn.name = "TTSEngine"
    /\ fn.calls[i].pc = "returned"
    /\ fn.calls[i].output_path = None

\* C19: two calls of synthesize that choose their path use the same path
\* exactly when they agree in text, language and provider.
TTSPathByTextLangVoice ==
    (ChosePath(1) /\ ChosePath(2)) =>
        (fn.calls[1].result = fn.calls[2].result
           <=> /\ fn.calls[1].text = fn.calls[2].text
               /\ fn.calls[1].language = fn.calls[2].language
               /\ fn.calls[1].provider = fn.calls[2].provider)

\* ---------------------------------------------------------------------
\* SpecTempFiles: the temporary files of a combine run.  temp is the set of
\* temporary paths that exist: the scratch directory of
\* combine_audio_streaming with the files written into it, and the
\* NamedTemporaryFile of AudioCombiner._load_and_process_audio.
\* ---------------------------------------------------------------------

MaxTempSentences == 2

\* speeds in tenths: 1.0 and 1.5
TempSpeeds == {10, 15}

temp_dir_path == <<"temp_dir">>
tmp_name == <<"tmp.mp3">>
audio_path == <<"audio_path">>

InitTempFiles ==
    /\ \/ \E n \in 0..MaxTempSentences, speed_source \in TempSpeeds, speed_target \in TempSpeeds :
             fn = [pc |-> "called", name |-> "combine_audio_streaming", total |-> n, i |-> 0,
                   speed_source |-> speed_source, speed_target |-> speed_target,
                   temp |-> {}, error |-> None]
       \/ \E speed \in TempSpeeds :
             fn = [pc |-> "called", name |-> "_load_and_process_audio", speed |-> speed,
                   processed_path |-> None, temp |-> {}, error |-> None]
    /\ pipe = [pc |-> "idle"]
    /\ IdleOthers

\* temp_dir_path = Path(tempfile.mkdtemp()), before the try statement
Mkdtemp ==
    /\ fn.name = "combine_audio_streaming"
    /\ fn.pc = "called"
    /\ \E created \in BOOLEAN :
          fn' = IF created
                THEN [fn EXCEPT !.pc = "silence", !.temp = {temp_dir_path}]
                ELSE [fn EXCEPT !.pc = "raised", !.error = <<"OSError">>]
    /\ UNCHANGED <<limVars, thrVars, adVars, job, asm, pipe>>

\* the silence files; subprocess.run raises FileNotFoundError without ffmpeg
SilenceFiles ==
    /\ fn.name = "combine_audio_streaming"
    /\ fn.pc = "silence"
    /\ \E ffmpeg \in BOOLEAN :
          fn' = IF ffmpeg
                THEN [fn EXCEPT !.pc = "loop",
                                !.temp = @ \cup {temp_dir_path \o <<"silence_lang.mp3">>,
                                                 temp_dir_path \o <<"silence_sentence.mp3">>}]
                ELSE [fn EXCEPT !.pc = "finally", !.error = <<"FileNotFoundError">>]
    /\ UNCHANGED <<limVars, thrVars, adVars, job, asm, pipe>>

\* one pass of the loop over the sentence pairs: src_{i}.mp3 and tgt_{i}.mp3
\* are written into the scratch directory when the speed is not 1.0
ProcessPair ==
    /\ fn.name = "combine_audio_streaming"
    /\ fn.pc = "loop"
    /\ fn.i < fn.total
    /\ \E raised \in BOOLEAN :
          LET src == IF fn.speed_source # 10 THEN {temp_dir_path \o <<"src", fn.i>>} ELSE {}
              tgt == IF fn.speed_target # 10 THEN {temp_dir_path \o <<"tgt", fn.i>>} ELSE {}
          IN  fn' = IF raised
                    THEN [fn EXCEPT !.pc = "finally", !.temp = @ \cup src,
                                    !.error = <<"Exception">>]
                    ELSE [fn EXCEPT !.i = @ + 1, !.temp = @ \cup src \cup tgt]
    /\ UNCHANGED <<limVars, thrVars, adVars, job, asm, pipe>>

\* concat.txt is written and ffmpeg concatenates
ConcatOutput ==
    /\ fn.name = "combine_audio_streaming"
    /\ fn.pc = "loop"
    /\ fn.i = fn.total
    /\ \E raised \in BOOLEAN :
          fn' = [fn EXCEPT !.pc = "finally",
                           !.temp = @ \cup {temp_dir_path \o <<"concat.txt">>},
                           !.error = IF raised THEN <<"Exception">> ELSE None]
    /\ UNCHANGED <<limVars, thrVars, adVars, job, asm, pipe>>

\* finally: shutil.rmtree(temp_dir_path, ignore_errors=True)
RemoveTempDir ==
    /\ fn.name = "combine_audio_streaming"
    /\ fn.pc = "finally"
    /\ fn' = [fn EXCEPT !.pc = IF fn.error = None THEN "returned" ELSE "raised",
                        !.temp = {p \in @ : ~StartsWith(p, temp_dir_path)}]
    /\ UNCHANGED <<limVars, thrVars, adVars, job, asm, pipe>>

\* _load_and_process_audio up to the call of _change_speed_preserve_pitch:
\* with a speed other than 1.0, NamedTemporaryFile(suffix=".mp3",
\* delete=False) creates the file tmp.name
NamedTemporaryFile ==
    /\ fn.name = "_load_and_process_audio"
    /\ fn.pc = "called"
    /\ fn' = IF fn.speed # 10
             THEN [fn EXCEPT !.pc = "change_speed", !.temp = {tmp_name}]
             ELSE [fn EXCEPT !.pc = "from_file", !.processed_path = audio_path]
    /\ UNCHANGED <<limVars, thrVars, adVars, job, asm, pipe>>

\* _change_speed_preserve_pitch(audio_path, speed, tmp.name): rubberband,
\* then ffmpeg with the atempo filter; each tool succeeds, fails or is
\* missing, and the original path comes back when both fail
_change_speed_preserve_pitch ==
    /\ fn.name = "_load_and_process_audio"
    /\ fn.pc = "change_speed"
    /\ \E rubberband \in {"ok", "failed", "missing"}, ffmpeg \in {"ok", "failed", "missing"} :
          fn' = [fn EXCEPT !.pc = "from_file",
                           !.processed_path = IF rubberband = "ok" \/ ffmpeg = "ok"
                                              THEN tmp_name ELSE audio_path]
    /\ UNCHANGED <<limVars, thrVars, adVars, job, asm, pipe>>

\* AudioSegment.from_file(processed_path), then Path(processed_path).unlink()
\* when the processed path is not the original; an OSError of unlink is
\* passed over
FromFile ==
    /\ fn.name = "_load_and_process_audio"
    /\ fn.pc = "from_file"
    /\ \E loaded \in BOOLEAN, unlinked \in BOOLEAN :
          fn' = IF ~loaded
                THEN [fn EXCEPT !.pc = "raised", !.error = <<"CouldntDecodeError">>]
                ELSE IF fn.processed_path # audio_path /\ unlinked
                THEN [fn EXCEPT !.pc = "returned", !.temp = @ \ {fn.processed_path}]
                ELSE [fn EXCEPT !.pc = "returned"]
    /\ UNCHANGED <<limVars, thrVars, adVars, job, asm, pipe>>

NextTempFiles ==
    \/ Mkdtemp
    \/ SilenceFiles
    \/ ProcessPair
    \/ ConcatOutput
    \/ RemoveTempDir
    \/ NamedTemporaryFile
    \/ _change_speed_preserve_pitch
    \/ FromFile

SpecTempFiles == InitTempFiles /\ [][NextTempFiles]_vars

TempCallExited ==
    /\ fn.name \in {"combine_audio_streaming", "_load_and_process_audio"}
    /\ fn.pc \in {"returned", "raised"}

\* C20: when combine_audio_streaming or _load_and_process_audio has exited,
\* by return or by exception, no temporary file or directory it created
\* exists.
TempFilesRemoved == TempCallExited => fn.temp = {}

\* ---------------------------------------------------------------------
\* SpecRun: the run command, cmd_run of main.py, up to the configuration of
\* the pipeline.  store is the projects directory: a project record for
\* every slug.  ProjectManager and Project are not among the sources; their
\* operations are modelled from the specification's project store.
\* ---------------------------------------------------------------------

RunName == "book"
RunSource == "ru"
RunTarget == "es"
RunLocales == {None, <<"es-latam">>}

\* Progress(0, 0, Status.PENDING)
PendingProgress == [done |-> 0, total |-> 0, status |-> "pending"]
CompleteProgress == [done |-> 1, total |-> 1, status |-> "complete"]

NoProject ==
    [exists |-> FALSE, video |-> PendingProgress, audio_combined |-> PendingProgress,
     original_text |-> "", background |-> FALSE]

\* a project of an earlier run that finished
FinishedProject ==
    [exists |-> TRUE, video |-> CompleteProgress, audio_combined |-> CompleteProgress,
     original_text |-> "old text", background |-> FALSE]

\* slug = f"{name}_{args.source}_{target_for_slug}"
run_slug(name, source, target_for_slug) == <<name, "_", source, "_", target_for_slug>>

RunSlugs == {run_slug(RunName, RunSource, RunTarget), run_slug(RunName, RunSource, "es-latam")}

RunStores == [RunSlugs -> {NoProject, FinishedProject}]

RunArgs ==
    [input_exists : BOOLEAN, input_text : {"old text", "new text"}, force : BOOLEAN,
     tts_target_locale : RunLocales, background_exists : BOOLEAN,
     wordcard_mode : {"combined", "per_word"}, tts_wordcards_source : BOOLEAN,
     tts_wordcards : BOOLEAN, translator : {"google", "openai"},
     translate_context : BOOLEAN]

InitRun ==
    /\ \E args \in RunArgs, store \in RunStores :
          fn = [pc |-> "called", name |-> "cmd_run", args |-> args, store |-> store,
                before |-> store, project |-> None, exit_code |-> -1]
    /\ pipe = [pc |-> "idle"]
    /\ IdleOthers

\* pm.get_project(slug)
get_project(store, slug) == IF store[slug].exists THEN slug ELSE None

\* pm.create_project(name, source, target): the project of the slug made of
\* the three, created on first use
create_project(store, name, source, target) ==
    LET slug == run_slug(name, source, target)
    IN  IF store[slug].exists THEN store
        ELSE [store EXCEPT ![slug] = [NoProject EXCEPT !.exists = TRUE]]

\* 1. Validate input file
ValidateInput ==
    /\ fn.name = "cmd_run"
    /\ fn.pc = "called"
    /\ fn' = IF ~fn.args.input_exists
             THEN [fn EXCEPT !.pc = "exited", !.exit_code = 1]
             ELSE [fn EXCEPT !.pc = "project"]
    /\ UNCHANGED <<limVars, thrVars, adVars, job, asm, pipe>>

\* 2., 3. the slug, then the existing project (refused without --force, its
\* video and audio_combined steps reset and the meta saved with it) or a new
\* project
CreateOrLoadProject ==
    /\ fn.name = "cmd_run"
    /\ fn.pc = "project"
    /\ LET target_for_slug == IF fn.args.tts_target_locale # None
                              THEN fn.args.tts_target_locale[1] ELSE RunTarget
           slug == run_slug(RunName, RunSource, target_for_slug)
           existing == get_project(fn.store, slug)
       IN  fn' = IF existing # None /\ ~fn.args.force
                 THEN [fn EXCEPT !.pc = "exited", !.exit_code = 1]
                 ELSE IF existing # None
                 THEN [fn EXCEPT !.pc = "text", !.project = existing,
                                 !.store[existing].video = PendingProgress,
                                 !.store[existing].audio_combined = PendingProgress]
                 ELSE [fn EXCEPT !.pc = "text",
                                 !.project = run_slug(RunName, RunSource, RunTarget),
                                 !.store = create_project(@, RunName, RunSource, RunTarget)]
    /\ UNCHANGED <<limVars, thrVars, adVars, job, asm, pipe>>

\* 4., 5. project.set_original_text(text), and the background image copied
\* into the project's video directory
LoadText ==
    /\ fn.name = "cmd_run"
    /\ fn.pc = "text"
    /\ fn' = [fn EXCEPT !.pc = "configure",
                        !.store[fn.project].original_text = fn.args.input_text,
                        !.store[fn.project].background =
                            @ \/ fn.args.background_exists]
    /\ UNCHANGED <<limVars, thrVars, adVars, job, asm, pipe>>

\* 6. the word-card options and the translate context are validated, then
\* the pipeline is configured
ConfigurePipeline ==
    /\ fn.name = "cmd_run"
    /\ fn.pc = "configure"
    /\ fn' = IF fn.args.wordcard_mode = "combined" /\ fn.args.tts_wordcards_source
             THEN [fn EXCEPT !.pc = "exited", !.exit_code = 1]
             ELSE IF fn.args.wordcard_mode = "per_word" /\ fn.args.tts_wordcards
             THEN [fn EXCEPT !.pc = "exited", !.exit_code = 1]
             ELSE IF fn.args.translator = "openai" /\ ~fn.args.translate_context
             THEN [fn EXCEPT !.pc = "exited", !.exit_code = 1]
             ELSE [fn EXCEPT !.pc = "configured"]
    /\ UNCHANGED <<limVars, thrVars, adVars, job, asm, pipe>>

NextRun == ValidateInput \/ CreateOrLoadProject \/ LoadText \/ ConfigurePipeline

SpecRun == InitRun /\ [][NextRun]_vars

\* C21: when cmd_run has exited with code 1 because of an input error, the
\* stored projects are what they were before the command: none was created
\* and no meta, step progress or original text was changed.
InputErrorChangesNothing ==
    (fn.name = "cmd_run" /\ fn.pc = "exited" /\ fn.exit_code = 1) => fn.store = fn.before

\* C22: normalize_code gives, for every key of the alias table written in
\* any letter case, the code of the aliased language, and for every
\* registered code written in any letter case that code; "es-AR" gives
\* "es-latam", "ru-RU" gives "ru" and "ES" gives "es".
AliasesResolvedInAnyCase ==
    (fn.pc = "done" /\ fn.name = "normalize_code") =>
        /\ \A key \in DOMAIN ALIASES :
              Lower(fn.code) = Lower(key) => fn.value = ALIASES[key].code
        /\ \A registered \in DOMAIN LANGUAGE_MAP :
              Lower(fn.code) = Lower(registered) => fn.value = registered
        /\ fn.code = "es-AR" => fn.value = "es-latam"
        /\ fn.code = "ru-RU" => fn.value = "ru"
        /\ fn.code = "ES" => fn.value = "es"

\* ---------------------------------------------------------------------
\* SpecRetry: one call of a function wrapped by retry_with_backoff.  Delays
\* are in tenths of a second.
\* ---------------------------------------------------------------------

MaxWrapperRetries == 3

\* initial_delay, max_delay and backoff_factor: the defaults 1.0, 60.0 and
\* 2.0, and a max_delay that the third delay exceeds
RetryDelays ==
    {[initial_delay |-> 10, max_delay |-> 600, backoff_factor |-> 2],
     [initial_delay |-> 10, max_delay |-> 35, backoff_factor |-> 2]}

\* what one call of func does: it returns, raises an exception of
\* retryable_exceptions, or raises another exception
FuncOutcomes == {"ok", "retryable", "other"}

\* a variant that goes on after the failure of the last attempt
after_failure_one_more(kind, attempt, max_retries) ==
    IF kind = "retryable" /\ attempt <= max_retries THEN "on_retry" ELSE "raised"

\* except retryable_exceptions: raise when attempt == max_retries, else go
\* on with the retry; any other exception leaves the wrapper at once
after_failure(kind, attempt, max_retries) ==
    IF kind = "retryable" /\ attempt # max_retries THEN "on_retry" ELSE "raised"

InitRetry ==
    /\ \E max_retries \in 0..MaxWrapperRetries, on_retry \in {"None", "callback"},
          delays \in RetryDelays :
          fn = [pc |-> "attempt", name |-> "retry_with_backoff",
                max_retries |-> max_retries, on_retry |-> on_retry, attempt |-> 0,
                max_delay |-> delays.max_delay, backoff_factor |-> delays.backoff_factor,
                delay |-> delays.initial_delay, history |-> <<>>, callbacks |-> <<>>,
                sleeps |-> <<>>, result |-> None, error |-> None]
    /\ pipe = [pc |-> "idle"]
    /\ IdleOthers

\* one pass of the for loop up to the end of the try statement: func is
\* called; its exception is <<kind, number of the call>>
CallFunc ==
    /\ fn.name = "retry_with_backoff"
    /\ fn.pc = "attempt"
    /\ \E kind \in FuncOutcomes :
          LET n == Len(fn.history) + 1
              called == [fn EXCEPT !.history = Append(@, kind)]
          IN  fn' = IF kind = "ok"
                    THEN [called EXCEPT !.pc = "returned", !.result = <<"value", n>>]
                    ELSE [called EXCEPT
                            !.pc = after_failure(kind, fn.attempt, fn.max_retries),
                            !.error = <<kind, n>>]
    /\ UNCHANGED <<limVars, thrVars, adVars, job, asm, pipe>>

\* if on_retry: on_retry(e, attempt + 1)
OnRetry ==
    /\ fn.name = "retry_with_backoff"
    /\ fn.pc = "on_retry"
    /\ fn' = IF fn.on_retry = "None" THEN [fn EXCEPT !.pc = "sleep"]
             ELSE [fn EXCEPT !.pc = "sleep",
                             !.callbacks = Append(@, <<fn.error, fn.attempt + 1>>)]
    /\ UNCHANGED <<limVars, thrVars, adVars, job, asm, pipe>>

\* jitter = random.uniform(0, delay * 0.1): its lower or its upper end;
\* time.sleep(min(max_delay, delay + jitter)); delay *= backoff_factor
SleepBeforeRetry ==
    /\ fn.name = "retry_with_backoff"
    /\ fn.pc = "sleep"
    /\ \E jitter \in {0, fn.delay \div 10} :
          fn' = [fn EXCEPT !.pc = "attempt", !.attempt = @ + 1,
                           !.sleeps = Append(@, IntMin(fn.max_delay, fn.delay + jitter)),
                           !.delay = @ * fn.backoff_factor]
    /\ UNCHANGED <<limVars, thrVars, adVars, job, asm, pipe>>

NextRetry == CallFunc \/ OnRetry \/ SleepBeforeRetry

\* the wrapper runs on until it returns or raises
SpecRetry == InitRetry /\ [][NextRetry]_vars /\ WF_vars(NextRetry)

RetryExited == fn.name = "retry_with_backoff" /\ fn.pc \in {"returned", "raised"}

\* every call of func before the last one failed with a retryable exception
\* and was followed by one retry: a callback when on_retry is given, and a
\* sleep
RetriedBeforeLast ==
    /\ \A k \in 1..(Len(fn.history) - 1) : fn.history[k] = "retryable"
    /\ Len(fn.sleeps) = Len(fn.history) - 1
    /\ Len(fn.callbacks) = IF fn.on_retry = "None" THEN 0 ELSE Len(fn.history) - 1

RetryBounded ==
    fn.name = "retry_with_backoff" =>
        /\ Len(fn.history) <= fn.max_retries + 1
        /\ (fn.pc = "returned") =>
              /\ fn.history[Len(fn.history)] = "ok"
              /\ fn.result = <<"value", Len(fn.history)>>
              /\ RetriedBeforeLast
        /\ (fn.pc = "raised") =>
              /\ fn.error = <<fn.history[Len(fn.history)], Len(fn.history)>>
              /\ fn.error[1] = "retryable" => Len(fn.history) = fn.max_retries + 1
              /\ fn.error[1] \in {"retryable", "other"}
              /\ RetriedBeforeLast

\* C23: the wrapped function is called at most max_retries + 1 times and
\* the wrapper ends: with the first successful result and no further call,
\* with the last exception after the (max_retries + 1)-th retryable
\* failure, or with a non-retryable exception at once, with no retry,
\* callback or sleep after it.
RetryAtMostAndTerminates == [](RetryBounded) /\ <>(RetryExited)

RetryExhaustedWitness ==
    /\ fn.name = "retry_with_backoff" /\ fn.pc = "raised"
    /\ fn.max_retries = 2 /\ Len(fn.history) = 3 /\ fn.error = <<"retryable", 3>>
    /\ Len(fn.callbacks) = 2

\* sentence k (from 1) of the run played file f at a speed other than 1.0 and
\* the tempo pass failed on it
TempoFailed(f, speed) == speed # 1 /\ f.exists /\ ~f.tempo_ok

\* C24: when the tempo pass fails for a sentence whose speed is not 1.0,
\* combine_audio_streaming writes the original file of that sentence to the
\* concat list and adds the original's probed duration to the timeline; no
\* concat entry names a processed file that was not produced.
TempoFailureUsesOriginal ==
    asm.pc \in {"loop", "returned"} =>
        /\ \A k \in 1..Len(asm.timeline) :
              /\ TempoFailed(asm.source_files[k], asm.cfg.speed_source) =>
                    /\ \E e \in Range(asm.concat_entries) :
                          e.file = <<"src", k - 1, "original">>
                    /\ asm.timeline[k].source_duration
                          = Seconds(asm.source_files[k].duration_ms)
              /\ TempoFailed(asm.target_files[k], asm.cfg.speed_target) =>
                    /\ \E e \in Range(asm.concat_entries) :
                          e.file = <<"tgt", k - 1, "original">>
                    /\ asm.timeline[k].target_duration
                          = Seconds(asm.target_files[k].duration_ms)
        /\ \A e \in Range(asm.concat_entries) : e.produced

\* the target counts of the finished call
RareTargets ==
    rare_word_targets(fn.sentence_lengths, fn.min_per_sentence, fn.max_per_sentence,
                      fn.target_avg)

\* pool word k is in the list of sentence i
PlacedIn(k, i) == \E j \in DOMAIN fn.result[i] : fn.result[i][j] = k

\* the rarer pool words whose first sentence is that of word k
RarerWithSameFirst(k) ==
    {m \in 1..(k - 1) : fn.pool[m] # <<>> /\ fn.pool[m][1] = fn.pool[k][1]}

RarePlacementDone == fn.pc = "done" /\ fn.name = "get_rare_words_for_sentences"

\* C25: get_rare_words_for_sentences places a pool word only in a sentence
\* in which it occurs; taking the words rarest first, a word is in its first
\* sentence when that sentence was below its target at the word's turn; and
\* a word is left unplaced only if every sentence in which it occurs has
\* reached its target.
RareWordsPlacedWhereRoom ==
    RarePlacementDone =>
        \A k \in DOMAIN fn.pool :
            /\ \A i \in DOMAIN fn.result :
                  PlacedIn(k, i) => \E j \in DOMAIN fn.pool[k] : fn.pool[k][j] = i
            /\ (fn.pool[k] # <<>>
                  /\ Cardinality(RarerWithSameFirst(k)) < RareTargets[fn.pool[k][1]])
                 => PlacedIn(k, fn.pool[k][1])
            /\ (\A i \in DOMAIN fn.result : ~PlacedIn(k, i))
                 => \A j \in DOMAIN fn.pool[k] :
                       Len(fn.result[fn.pool[k][j]]) >= RareTargets[fn.pool[k][j]]

\* a word whose first sentence was full went to a later sentence, and
\* another word found all its sentences full
RareSecondPassWitness ==
    /\ RarePlacementDone
    /\ \E k \in DOMAIN fn.pool :
          /\ Len(fn.pool[k]) >= 2
          /\ ~PlacedIn(k, fn.pool[k][1])
          /\ \E j \in 2..Len(fn.pool[k]) : PlacedIn(k, fn.pool[k][j])
    /\ \E k \in DOMAIN fn.pool :
          fn.pool[k] # <<>> /\ \A i \in DOMAIN fn.result : ~PlacedIn(k, i)

\* ---------------------------------------------------------------------
\* SpecValidator: an AudioValidator and the validate calls made on it.
\* ---------------------------------------------------------------------

MaxValidations == 5

ValidatedPaths == {"a.mp3", "b.mp3"}

\* what validate_audio_file finds at the path
AudioFindings == {"missing", "empty", "too_small", "unreadable", "too_short", "good"}

\* validate_audio_file: is_valid
validate_audio_file(finding) == finding = "good"

\* AudioValidator.__init__
InitValidator ==
    /\ \E max_retries \in {1, 3} :
          fn = [pc |-> "ready", name |-> "AudioValidator", max_retries |-> max_retries,
                retry_counts |-> [f \in ValidatedPaths |-> 0], failed_files |-> <<>>,
                history |-> <<>>]
    /\ pipe = [pc |-> "idle"]
    /\ IdleOthers

\* AudioValidator.validate; _retry_counts.get(file_key, 0) is the count of a
\* path the dictionary does not hold yet
Validate ==
    /\ fn.name = "AudioValidator"
    /\ Len(fn.history) < MaxValidations
    /\ \E file_path \in ValidatedPaths, finding \in AudioFindings :
          LET is_valid == validate_audio_file(finding)
              count == fn.retry_counts[file_path] + 1
          IN  fn' = IF is_valid
                    THEN [fn EXCEPT !.history = Append(@, <<file_path, is_valid>>)]
                    ELSE [fn EXCEPT
                            !.history = Append(@, <<file_path, is_valid>>),
                            !.retry_counts[file_path] = count,
                            !.failed_files = IF count >= fn.max_retries
                                             THEN Append(@, file_path) ELSE @]
    /\ UNCHANGED <<limVars, thrVars, adVars, job, asm, pipe>>

NextValidator == Validate

SpecValidator == InitValidator /\ [][NextValidator]_vars

\* AudioValidator.should_retry
should_retry(v, file_path) == v.retry_counts[file_path] < v.max_retries

\* the number of validate calls on the path that failed
FailedValidations(file_path) ==
    Cardinality({k \in DOMAIN fn.history : fn.history[k] = <<file_path, FALSE>>})

TimesIn(list, x) == Cardinality({k \in DOMAIN list : list[k] = x})

\* C26: after any sequence of validate calls, should_retry(f) holds exactly
\* when f failed validation fewer than max_retries times, and failed_files
\* holds f once when f failed at least max_retries times and not at all
\* otherwise.
ValidatorTracksFailures ==
    fn.name = "AudioValidator" =>
        \A f \in ValidatedPaths :
            /\ should_retry(fn, f) <=> FailedValidations(f) < fn.max_retries
            /\ TimesIn(fn.failed_files, f)
                 = IF FailedValidations(f) >= fn.max_retries THEN 1 ELSE 0

\* ------------------------------------------------------------------
\* translate_batch: the positions of the returned list
\* ------------------------------------------------------------------

\* the batch that texts[k] was submitted in
BatchOf(k) == (k - 1) \div job.batch_size + 1

\* C27: translate_batch returns a list as long as its input whose position
\* i holds the result for texts[i] - what the worker of its batch returned
\* at the text's place in the batch, or the text itself when that worker
\* raised or nothing was submitted - in whatever order the workers finish
\* and whichever batches fail.
BatchResultsInPlace ==
    (job.pc = "done" /\ job.outcome = "returned") =>
        /\ Len(job.value) = Len(job.texts)
        /\ \A k \in 1..Len(job.texts) :
              IF job.source_lang = job.target_lang
              THEN job.value[k] = job.texts[k]
              ELSE LET bt == job.batches[BatchOf(k)]
                   IN  IF bt.outcome = "returned"
                       THEN /\ Len(bt.output) = Len(bt.texts)
                            /\ job.value[k] = bt.output[k - bt.start]
                       ELSE job.value[k] = job.texts[k]

\* three texts in two batches: the first batch raised, the second returned
\* translations that differ from its texts
BatchMixedWitness ==
    /\ job.pc = "done" /\ job.outcome = "returned"
    /\ Len(job.texts) = 3 /\ Len(job.batches) = 2
    /\ job.batches[1].outcome = "raised"
    /\ job.batches[2].outcome = "returned"
    /\ job.value[3] # job.texts[3]
    /\ job.value[3] = job.batches[2].output[1]

\* ------------------------------------------------------------------
\* Translator.translate and its TranslationCache (src/core/translator.py)
\* over GoogleFreeTranslator (src/providers/translation/google_free.py)
\* ------------------------------------------------------------------
MaxTranslations == 3

CachedTexts == {"hola", "adios", " "}
CachedLangs == {<<"es", "ru">>, <<"es", "es">>}

\* what the provider answers to a request it serves
ProviderTranslation(text) == IF text = "hola" THEN "privet" ELSE "poka"

\* what happens to one request inside _translate_with_retry: the provider
\* answers with a translation, answers with nothing, or every attempt fails
ProviderOutcomes == {"translated", "empty", "failed"}

\* TranslationCache._make_key: f"{source_lang}:{target_lang}:{text}" of
\* language codes without a colon
make_key(text, source_lang, target_lang) == <<source_lang, target_lang, text>>

\* GoogleFreeTranslator._translate_with_retry: `result if result else text`
\* on success, the text itself when the retries are used up or the error is
\* not retryable
translate_with_retry(text, outcome) ==
    IF outcome = "translated" THEN ProviderTranslation(text) ELSE text

\* str.strip() of a cached text is empty
IsBlank(text) == text = " " \/ text = ""

\* Translator.__init__ with an empty cache file
InitCache ==
    /\ \E cache_enabled \in BOOLEAN :
          fn = [pc |-> "ready", name |-> "Translator", cache_enabled |-> cache_enabled,
                cache |-> <<>>, history |-> <<>>]
    /\ pipe = [pc |-> "idle"]
    /\ IdleOthers

\* Translator.translate, with GoogleFreeTranslator.translate underneath
Translate ==
    /\ fn.name = "Translator"
    /\ Len(fn.history) < MaxTranslations
    /\ \E text \in CachedTexts, langs \in CachedLangs, outcome \in ProviderOutcomes :
          LET source_lang == langs[1]
              target_lang == langs[2]
              key == make_key(text, source_lang, target_lang)
              \* cached = self._cache.get(...); `if cached:` is false for ""
              hit == /\ fn.cache_enabled
                     /\ key \in DOMAIN fn.cache
                     /\ fn.cache[key] # ""
              requested == ~IsBlank(text)
              translation == IF requested THEN translate_with_retry(text, outcome)
                             ELSE text
              entry(from_cache, called, returned) ==
                  [text |-> text, source_lang |-> source_lang,
                   target_lang |-> target_lang, from_cache |-> from_cache,
                   provider_called |-> called,
                   outcome |-> IF called THEN outcome ELSE "none",
                   returned |-> returned]
          IN  fn' = IF source_lang = target_lang
                    THEN [fn EXCEPT !.history = Append(@, entry(FALSE, FALSE, text))]
                    ELSE IF hit
                    THEN [fn EXCEPT !.history = Append(@, entry(TRUE, FALSE, fn.cache[key]))]
                    ELSE [fn EXCEPT
                            !.history = Append(@, entry(FALSE, requested, translation)),
                            !.cache = IF fn.cache_enabled
                                      THEN [k \in DOMAIN fn.cache \cup {key} |->
                                              IF k = key THEN translation ELSE fn.cache[k]]
                                      ELSE @]
    /\ UNCHANGED <<limVars, thrVars, adVars, job, asm, pipe>>

NextCache == Translate

SpecCache == InitCache /\ [][NextCache]_vars

\* C28: Translator.translate caches only what the provider produced as a
\* translation: after a call in which the provider failed and the adapter
\* handed back the source text the cache has no entry for the key, and no
\* call returns the untranslated text from the cache.
CacheHoldsOnlyTranslations ==
    fn.name = "Translator" =>
        /\ \A i \in 1..Len(fn.history) :
              LET h == fn.history[i]
              IN  h.from_cache => h.returned # h.text
        /\ Len(fn.history) > 0 =>
              LET h == fn.history[Len(fn.history)]
              IN  h.outcome = "failed" =>
                      make_key(h.text, h.source_lang, h.target_lang)
                          \notin DOMAIN fn.cache

\* ------------------------------------------------------------------
\* verify_and_correct_timeline when the probe of the final audio fails
\* ------------------------------------------------------------------

\* verify_and_correct_timeline applied again with the same probed duration
\* changes nothing
VerifyIdempotent ==
    asm.pc = "verified" =>
        verify_and_correct_timeline(asm.timeline, asm.actual) = asm.timeline

\* C29: when the probe of the final audio reports 0,
\* verify_and_correct_timeline returns the timeline unchanged and never
\* scales the entries by 0; applied twice with the same probed duration it
\* gives the same timeline as applied once.
ProbeFailureKeepsTimeline ==
    asm.pc = "verified" =>
        /\ asm.actual = RInt(0) => asm.timeline = asm.before
        /\ VerifyIdempotent

\* ------------------------------------------------------------------
\* ASSGenerator.generate_subtitle_events (src/video/ffmpeg_generator.py)
\* over the timeline of combine_audio_streaming
\* ------------------------------------------------------------------

\* int(seconds * 1000) of a time that is not negative
int_ms(seconds) == (seconds[1] * 1000) \div seconds[2]

\* the events of one timeline item, each with its style and its start and
\* end in milliseconds; has_words: the sentence has rare words
subtitle_events(item, has_words) ==
    LET start_ms == int_ms(item.start)
        src_dur_ms == int_ms(item.source_duration)
        tgt_dur_ms == int_ms(item.target_duration)
        end_ms == int_ms(item.end)
        pause_ms == int_ms(item.pause_between)
        source_end_ms == start_ms + src_dur_ms
        target_start_ms == source_end_ms + pause_ms
        event(style, from, to) == [style |-> style, start |-> from, end |-> to]
    IN  (IF has_words THEN <<event("WordCard", start_ms, end_ms)>> ELSE <<>>) \o
        << event("Target", start_ms, target_start_ms),
           event("Source karaoke", start_ms, start_ms + src_dur_ms),
           event("SourceHighlight", source_end_ms, target_start_ms),
           event("SourceDim", target_start_ms, end_ms),
           event("Target karaoke", target_start_ms, target_start_ms + tgt_dur_ms) >>

\* the events of sentence k of the timeline lie within the sentence
EventsWithinSentence(timeline, k) ==
    \A has_words \in BOOLEAN :
        LET events == subtitle_events(timeline[k], has_words)
        IN  \A e \in 1..Len(events) :
                /\ int_ms(timeline[k].start) <= events[e].start
                /\ events[e].end <= int_ms(timeline[k].end)

\* the timeline as combine_audio_streaming returned it
SubtitlesWithinUnscaled ==
    asm.pc = "returned" =>
        \A k \in 1..Len(asm.timeline) : EventsWithinSentence(asm.timeline, k)

\* C30: for every timeline entry i of combine_audio_streaming, rescaled by
\* verify_and_correct_timeline or not, every subtitle event of sentence i
\* starts at or after start_i and ends at or before end_i; events of
\* consecutive sentences do not overlap.
SubtitlesWithinSentence ==
    asm.pc \in {"returned", "verified"} =>
        /\ \A k \in 1..Len(asm.timeline) : EventsWithinSentence(asm.timeline, k)
        /\ \A k \in 1..(Len(asm.timeline) - 1), v, w \in BOOLEAN :
              LET these == subtitle_events(asm.timeline[k], v)
                  those == subtitle_events(asm.timeline[k + 1], w)
              IN  \A e \in 1..Len(these), f \in 1..Len(those) :
                      these[e].end <= those[f].start

====
